---- MODULE Spec2Model ----
(***************************************************************************)
(* Model of lianlicontroller (src/src/main.rs): the command encoder        *)
(* (FanController::send_init / set_fan_color / set_fan_speed), the config  *)
(* resolution engine (get_effective_settings, get_rgb, get_field), the     *)
(* temperature mapper and the update scheduler (main).                     *)
(*                                                                         *)
(* Conventions.                                                            *)
(*   Option<T>  : <<>> is None, <<v>> is Some(v).                          *)
(*   Result     : a record [tag |-> "Ok" | <error variant>, val |-> ...].  *)
(*   &str       : a sequence of one-character strings.                     *)
(*   f32        : brightness and temperatures are integer valued in the    *)
(*                model; the f32 operations of the code are computed with  *)
(*                their rounding (F32Div, F32MulTrunc) where the rounding  *)
(*                changes the result.                                      *)
(***************************************************************************)
EXTENDS Integers, Sequences, FiniteSets, TLC

(* ---------------------------------------------------------------------- *)
(* Constants of the program (main.rs 15-22)                                *)
(* ---------------------------------------------------------------------- *)
VENDOR_ID == 3314
SUPPORTED_PRODUCT_IDS == <<30544, 41216, 41217, 41218, 41219, 41220, 41221>>
FAN_COUNT == 4
COLOR_BUFFER_SIZE == 353
LEDS_PER_FAN == 117
REPORT_ID == 224
SET_COLOR_CMD_BASE == 48
SET_SPEED_CMD == 16

U8_MAX == 255
BRIGHTNESS_MAX == 100

None == <<>>
Some(v) == <<v>>
IsSome(o) == o # <<>>
Unwrap(o) == o[1]

Min(a, b) == IF a <= b THEN a ELSE b
Max(a, b) == IF a >= b THEN a ELSE b

Ok(v) == [tag |-> "Ok", val |-> <<v>>]
Err(t, v) == [tag |-> t, val |-> v]
IsOk(res) == res.tag = "Ok"

(* ---------------------------------------------------------------------- *)
(* get_model_config (main.rs 130-139)                                      *)
(* ---------------------------------------------------------------------- *)
ModelConfig(mb, sb, lo, hi) ==
    [mode_byte |-> mb, sync_byte |-> sb, min_rpm |-> lo, max_rpm |-> hi]

get_model_config(product_id) ==
    CASE product_id \in {41216, 30544} -> ModelConfig(49, 48, 800, 1900)
      [] product_id = 41217            -> ModelConfig(66, 65, 800, 1900)
      [] product_id = 41218            -> ModelConfig(98, 97, 200, 2100)
      [] product_id \in {41219, 41221} -> ModelConfig(98, 97, 250, 2000)
      [] product_id = 41220            -> ModelConfig(98, 97, 250, 2000)
      [] OTHER                         -> ModelConfig(49, 48, 800, 1900)

(* ---------------------------------------------------------------------- *)
(* f32 arithmetic, as far as set_fan_color needs it.  A positive f32 is    *)
(* [m, e] with value m * 2^-e and 2^23 <= m < 2^24 (24-bit significand,    *)
(* round to nearest, ties to even).  All intermediate values stay below    *)
(* 2^31.                                                                   *)
(* ---------------------------------------------------------------------- *)
Pow2(n) == IF n <= 0 THEN 1 ELSE 2 ^ n

RECURSIVE BitLen(_)
BitLen(x) == IF x <= 0 THEN 0 ELSE 1 + BitLen(x \div 2)

RECURSIVE F32Exp(_, _, _)
(* the exponent e >= start with b * 2^23 <= a * 2^e, for 0 < a < 2b *)
F32Exp(a, b, e) ==
    IF a * Pow2(e) >= b * Pow2(23) THEN e ELSE F32Exp(a, b, e + 1)

(* a / b of two f32 holding the integers a and b, 0 <= a < 2b, b <= 127 *)
F32Div(a, b) ==
    IF a = 0 THEN [m |-> 0, e |-> 0]
    ELSE LET e   == F32Exp(a, b, 23)
             n   == a * Pow2(e)
             q   == n \div b
             rem == n % b
             up  == (2 * rem > b) \/ (2 * rem = b /\ q % 2 = 1)
             m   == IF up THEN q + 1 ELSE q
         IN  IF m = Pow2(24) THEN [m |-> Pow2(23), e |-> e - 1]
             ELSE [m |-> m, e |-> e]

(* (c as f32 * fac) as an integer truncated toward zero, for 0 <= c <= 255 *)
(* and 0 <= fac < 2: the product c * fac.m is rounded to 24 bits first.    *)
F32MulTrunc(c, fac) ==
    IF c = 0 \/ fac.m = 0 THEN 0
    ELSE LET mh   == fac.m \div 4096
             ml   == fac.m % 4096
             lo   == c * ml
             A    == c * mh + lo \div 4096
             B    == lo % 4096
             k    == Max(0, BitLen(A) - 12)
             Bh   == B \div Pow2(k)
             Bl   == B % Pow2(k)
             q0   == A * Pow2(12 - k) + Bh
             up   == k > 0 /\ ((2 * Bl > Pow2(k)) \/ (2 * Bl = Pow2(k) /\ q0 % 2 = 1))
             q    == IF up THEN q0 + 1 ELSE q0
         IN  q \div Pow2(fac.e - k)

(* `x as u8` of a non-negative value: the cast saturates *)
AsU8(x) == Min(Max(x, 0), U8_MAX)

(* round(n / d) for n >= 0, d > 0: f32::round rounds half away from zero.  *)
(* For the three RPM ranges of get_model_config and for integer            *)
(* temperatures the f32 quotient is never within an f32 rounding error of  *)
(* a half, so the exact rounding is the f32 result.                        *)
RoundDiv(n, d) == (2 * n + d) \div (2 * d)

(* ---------------------------------------------------------------------- *)
(* FanController::send_init (main.rs 169-193): the five init reports       *)
(* ---------------------------------------------------------------------- *)
Report11(b1, b2, b3) == <<REPORT_ID, b1, b2, b3, 0, 0, 0, 0, 0, 0, 0>>

init_commands ==
    << Report11(80, 1, 0),
       Report11(SET_SPEED_CMD, 50, 3),
       Report11(SET_SPEED_CMD, 50, 19),
       Report11(SET_SPEED_CMD, 50, 35),
       Report11(SET_SPEED_CMD, 50, 51) >>

(* ---------------------------------------------------------------------- *)
(* FanController::set_fan_color (main.rs 195-231)                          *)
(* ---------------------------------------------------------------------- *)
(* mutant: the brightness is not validated *)
ColorCheck_NoBrightness(fan, brightness) ==
    IF fan >= FAN_COUNT THEN Err("InvalidFan", <<fan>>)
    ELSE Ok(fan)

(* the two validations at the head of set_fan_color *)
ColorCheck(fan, brightness) ==
    IF fan >= FAN_COUNT THEN Err("InvalidFan", <<fan>>)
    ELSE IF ~(0 <= brightness /\ brightness <= BRIGHTNESS_MAX)
         THEN Err("InvalidBrightness", <<brightness>>)
         ELSE Ok(fan)

(* (c as f32 * (brightness / 100.0)).min(255.0) as u8; a product that is   *)
(* not positive casts to 0                                                 *)
ScaleChannel(c, brightness) ==
    IF brightness <= 0 THEN 0
    ELSE AsU8(Min(F32MulTrunc(c, F32Div(brightness, 100)), U8_MAX))

(* buf.resize(n, v) *)
Resize(buf, n, v) == [i \in 1..n |-> IF i <= Len(buf) THEN buf[i] ELSE v]

(* n times buf.extend_from_slice(&colors) *)
ExtendRepeat(buf, colors, n) ==
    buf \o [i \in 1..(n * Len(colors)) |-> colors[((i - 1) % Len(colors)) + 1]]

(* mutant: the triple is emitted as red, green, blue *)
ColorFrame_RGB(fan, r, g, b, brightness) ==
    LET scaled_r == ScaleChannel(r, brightness)
        scaled_g == ScaleChannel(g, brightness)
        scaled_b == ScaleChannel(b, brightness)
        colors   == <<scaled_r, scaled_g, scaled_b>>
        head     == <<REPORT_ID, (SET_COLOR_CMD_BASE + fan) % 256>>
    IN  Resize(ExtendRepeat(head, colors, LEDS_PER_FAN), COLOR_BUFFER_SIZE, 0)

(* the buffer handed to device.write *)
ColorFrame(fan, r, g, b, brightness) ==
    LET scaled_r == ScaleChannel(r, brightness)
        scaled_g == ScaleChannel(g, brightness)
        scaled_b == ScaleChannel(b, brightness)
        colors   == <<scaled_r, scaled_b, scaled_g>>
        head     == <<REPORT_ID, (SET_COLOR_CMD_BASE + fan) % 256>>
    IN  Resize(ExtendRepeat(head, colors, LEDS_PER_FAN), COLOR_BUFFER_SIZE, 0)

(* mutant: the last confirmation report is left out *)
confirm_cmds_Two ==
    << Report11(SET_SPEED_CMD, 1, 0),
       Report11(17, 1, 0) >>

confirm_cmds ==
    << Report11(SET_SPEED_CMD, 1, 0),
       Report11(17, 1, 0),
       Report11(96, 0, 1) >>

(* ---------------------------------------------------------------------- *)
(* FanController::set_fan_speed (main.rs 233-260)                          *)
(* ---------------------------------------------------------------------- *)
(* mutant: the speed is not validated *)
SpeedCheck_NoRange(fan, speed, mc) ==
    IF fan >= FAN_COUNT THEN Err("InvalidFan", <<fan>>)
    ELSE Ok(fan)

(* the two validations at the head of set_fan_speed *)
SpeedCheck(fan, speed, mc) ==
    IF fan >= FAN_COUNT THEN Err("InvalidFan", <<fan>>)
    ELSE IF speed < mc.min_rpm \/ speed > mc.max_rpm
         THEN Err("InvalidSpeed", <<speed, mc.min_rpm, mc.max_rpm>>)
         ELSE Ok(fan)

(* [REPORT_ID, SET_SPEED_CMD, mode_byte, 0x10 << fan], channel_byte is a u8 *)
(* a channel byte that ignores the zone *)
ManualModeCmd_NoShift(fan, mc) == <<REPORT_ID, SET_SPEED_CMD, mc.mode_byte, 16>>

ManualModeCmd(fan, mc) ==
    <<REPORT_ID, SET_SPEED_CMD, mc.mode_byte, (16 * Pow2(fan)) % 256>>

(* mutant: the quotient is truncated, not rounded *)
SpeedByte_Trunc(speed, min_rpm, max_rpm) ==
    LET speed_range == max_rpm - min_rpm
        speed_value == speed - min_rpm
    IN  IF speed_range > 0
        THEN (1 + AsU8((speed_value * 254) \div speed_range)) % 256
        ELSE 1

(* 1 + ((speed_value / speed_range * 254.0).round() as u8), u8 arithmetic *)
SpeedByte(speed, min_rpm, max_rpm) ==
    LET speed_range == max_rpm - min_rpm
        speed_value == speed - min_rpm
    IN  IF speed_range > 0
        THEN (1 + AsU8(RoundDiv(speed_value * 254, speed_range))) % 256
        ELSE 1

SpeedCmd(fan, speed_byte) == <<REPORT_ID, (fan + 32) % 256, 0, speed_byte>>

(* ---------------------------------------------------------------------- *)
(* map_temp_to_rpm (main.rs 277-288), temperatures in whole degrees        *)
(* ---------------------------------------------------------------------- *)
TEMP_LOW == 60
TEMP_HIGH == 95
TEMP_FALLBACK == 50

(* mutant: the interpolation is truncated, not rounded *)
(* the interpolation without the two clamping branches *)
map_temp_to_rpm_NoClamp(temp, min_rpm, max_rpm) ==
    min_rpm + RoundDiv((temp - TEMP_LOW) * (max_rpm - min_rpm), TEMP_HIGH - TEMP_LOW)

map_temp_to_rpm_Trunc(temp, min_rpm, max_rpm) ==
    IF temp <= TEMP_LOW THEN min_rpm
    ELSE IF temp >= TEMP_HIGH THEN max_rpm
    ELSE min_rpm + ((temp - TEMP_LOW) * (max_rpm - min_rpm)) \div (TEMP_HIGH - TEMP_LOW)

map_temp_to_rpm(temp, min_rpm, max_rpm) ==
    IF temp <= TEMP_LOW THEN min_rpm
    ELSE IF temp >= TEMP_HIGH THEN max_rpm
    ELSE LET temp_range == TEMP_HIGH - TEMP_LOW
             rpm_range  == max_rpm - min_rpm
         IN  min_rpm + RoundDiv((temp - TEMP_LOW) * rpm_range, temp_range)

(* ---------------------------------------------------------------------- *)
(* parse_hex_color (main.rs 263-275).  ASCII strings only.                 *)
(* ---------------------------------------------------------------------- *)
HexChars == << "0", "1", "2", "3", "4", "5", "6", "7", "8", "9",
               "a", "b", "c", "d", "e", "f", "A", "B", "C", "D", "E", "F" >>
HexVals  == << 0, 1, 2, 3, 4, 5, 6, 7, 8, 9,
               10, 11, 12, 13, 14, 15, 10, 11, 12, 13, 14, 15 >>

IsHexDigit(c) == \E i \in 1..Len(HexChars) : HexChars[i] = c
HexVal(c) == HexVals[CHOOSE i \in 1..Len(HexChars) : HexChars[i] = c]

RECURSIVE trim_start_matches(_, _)
(* str::trim_start_matches(ch): removes every leading occurrence of ch *)
trim_start_matches(str, ch) ==
    IF Len(str) > 0 /\ str[1] = ch THEN trim_start_matches(Tail(str), ch)
    ELSE str

(* u8::from_str_radix(s, 16) of a two-character slice: an optional leading *)
(* '+' and then at least one hex digit; <<>> is Err                        *)
from_str_radix(s) ==
    IF s[1] = "+"
    THEN IF IsHexDigit(s[2]) THEN Some(HexVal(s[2])) ELSE None
    ELSE IF IsHexDigit(s[1]) /\ IsHexDigit(s[2])
         THEN Some(16 * HexVal(s[1]) + HexVal(s[2]))
         ELSE None

parse_hex_color(str) ==
    LET hex == trim_start_matches(str, "#")
    IN  IF Len(hex) # 6 THEN Err("InvalidHexColor", <<hex>>)
        ELSE LET r == from_str_radix(SubSeq(hex, 1, 2))
                 g == from_str_radix(SubSeq(hex, 3, 4))
                 b == from_str_radix(SubSeq(hex, 5, 6))
             IN  IF IsSome(r) /\ IsSome(g) /\ IsSome(b)
                 THEN Ok(<<Unwrap(r), Unwrap(g), Unwrap(b)>>)
                 ELSE Err("InvalidHexColor", <<hex>>)

(* ---------------------------------------------------------------------- *)
(* Config resolution (main.rs 356-432)                                     *)
(* ---------------------------------------------------------------------- *)
FanModes == {"Fixed", "QuietCpu", "QuietGpu"}

(* mutant: the global section is asked before the zone section *)
get_field_GlobalFirst(zone_config, global_config, default, field) ==
    LET z == IF IsSome(zone_config) THEN Unwrap(zone_config)[field] ELSE None
        g == IF IsSome(global_config) THEN Unwrap(global_config)[field] ELSE None
    IN  IF IsSome(g) THEN Unwrap(g)
        ELSE IF IsSome(z) THEN Unwrap(z)
        ELSE default

(* get_field: zone value, else global value, else the default *)
get_field(zone_config, global_config, default, field) ==
    LET z == IF IsSome(zone_config) THEN Unwrap(zone_config)[field] ELSE None
        g == IF IsSome(global_config) THEN Unwrap(global_config)[field] ELSE None
    IN  IF IsSome(z) THEN Unwrap(z)
        ELSE IF IsSome(g) THEN Unwrap(g)
        ELSE default

(* one layer of get_rgb: the hex string when it parses, else the triple    *)
(* when all three channels are set, else nothing                           *)
LayerRgb(layer) ==
    LET parsed == IF IsSome(layer.color) THEN parse_hex_color(Unwrap(layer.color))
                  ELSE Err("NoColor", <<>>)
    IN  IF IsSome(layer.color) /\ IsOk(parsed) THEN Some(Unwrap(parsed.val))
        ELSE IF IsSome(layer.red) /\ IsSome(layer.green) /\ IsSome(layer.blue)
             THEN Some(<<Unwrap(layer.red), Unwrap(layer.green), Unwrap(layer.blue)>>)
             ELSE None

(* mutant: each channel is resolved on its own through the layers *)
get_rgb_Mixed(zone_config, global_config, args) ==
    << get_field(zone_config, global_config, args.red, "red"),
       get_field(zone_config, global_config, args.green, "green"),
       get_field(zone_config, global_config, args.blue, "blue") >>

get_rgb(zone_config, global_config, args) ==
    LET z == IF IsSome(zone_config) THEN LayerRgb(Unwrap(zone_config)) ELSE None
        g == IF IsSome(global_config) THEN LayerRgb(Unwrap(global_config)) ELSE None
    IN  IF IsSome(z) THEN Unwrap(z)
        ELSE IF IsSome(g) THEN Unwrap(g)
        ELSE <<args.red, args.green, args.blue>>

(* mutant: the enabled field is not looked at *)
get_effective_settings_IgnoreEnabled(zone_config, global_config, args, model_config) ==
    LET rgb == get_rgb(zone_config, global_config, args)
    IN  [r |-> rgb[1], g |-> rgb[2], b |-> rgb[3],
         brightness |-> get_field(zone_config, global_config, args.brightness, "brightness"),
         speed      |-> get_field(zone_config, global_config, args.speed, "speed"),
         mode       |-> get_field(zone_config, global_config, args.mode, "mode")]

get_effective_settings(zone_config, global_config, args, model_config) ==
    LET enabled == IF IsSome(zone_config) /\ IsSome(Unwrap(zone_config).enabled)
                   THEN Unwrap(Unwrap(zone_config).enabled)
                   ELSE TRUE
        rgb     == get_rgb(zone_config, global_config, args)
    IN  IF ~enabled
        THEN [r |-> 0, g |-> 0, b |-> 0, brightness |-> 0,
              speed |-> model_config.min_rpm, mode |-> "Fixed"]
        ELSE [r |-> rgb[1], g |-> rgb[2], b |-> rgb[3],
              brightness |-> get_field(zone_config, global_config, args.brightness, "brightness"),
              speed      |-> get_field(zone_config, global_config, args.speed, "speed"),
              mode       |-> get_field(zone_config, global_config, args.mode, "mode")]

(* config: Option<Config>, Config = [global, zones], zones[z + 1] = zone_z *)
get_zone_config(config, zone_num) ==
    IF IsSome(config) /\ zone_num \in 0..3 THEN Unwrap(config).zones[zone_num + 1]
    ELSE None

get_global_config(config) ==
    IF IsSome(config) THEN Unwrap(config).global ELSE None

(* ---------------------------------------------------------------------- *)
(* Sensors (main.rs 290-354), temperatures in whole degrees                *)
(* ---------------------------------------------------------------------- *)
MaxOf(S) == CHOOSE x \in S : \A y \in S : y <= x

(* components: a sequence of [cpu_label, temperature]; cpu_label says the  *)
(* label contains one of cpu_labels, temperature is Option<temp>           *)
get_cpu_temp(components) ==
    LET idx       == 1..Len(components)
        cpu_temps == { Unwrap(components[i].temperature) : i \in
                         { j \in idx : /\ components[j].cpu_label
                                       /\ IsSome(components[j].temperature)
                                       /\ Unwrap(components[j].temperature) > 0 } }
        all_temps == { Unwrap(components[i].temperature) : i \in
                         { j \in idx : /\ IsSome(components[j].temperature)
                                       /\ Unwrap(components[j].temperature) > 0 } }
    IN  IF cpu_temps # {} THEN Ok(MaxOf(cpu_temps))
        ELSE IF all_temps # {} THEN Ok(MaxOf(all_temps))
        ELSE Ok(TEMP_FALLBACK)

RECURSIVE ScanCards(_, _)
(* the scan of /sys/class/drm/card{0..4}: hwmon[card + 1] is the sequence  *)
(* of glob entries of the card, each Option<millidegrees> (None: the file  *)
(* cannot be read or parsed); the first readable entry is returned         *)
ScanCards(hwmon, card) ==
    IF card > 4 THEN None
    ELSE LET entries  == hwmon[card + 1]
             readable == { i \in 1..Len(entries) : IsSome(entries[i]) }
         IN  IF readable # {}
             THEN Some(Unwrap(entries[CHOOSE i \in readable : \A j \in readable : i <= j]) \div 1000)
             ELSE ScanCards(hwmon, card + 1)

(* gpu: [nvml_init, device0, temperature, hwmon]; temperature is the       *)
(* Option of device.temperature(..), None when that call returns Err       *)
get_gpu_temp(gpu) ==
    IF gpu.nvml_init /\ gpu.device0
    THEN IF IsSome(gpu.temperature) THEN Ok(Unwrap(gpu.temperature))
         ELSE Err("NvmlError", <<>>)
    ELSE LET amd == ScanCards(gpu.hwmon, 0)
         IN  IF IsSome(amd) THEN Ok(Unwrap(amd)) ELSE Ok(TEMP_FALLBACK)

(* ---------------------------------------------------------------------- *)
(* State                                                                   *)
(* ---------------------------------------------------------------------- *)
VARIABLES
    openable,       \* environment: the product ids for which api.open succeeds
    args,           \* Args::parse()
    config,         \* Option<Config> read from the config file
    pc,             \* position in main / in the FanController method running
    controller,     \* Option<FanController>: [product_id, model_config]
    zone_num,       \* loop variable of the two `for zone_num in 0..FAN_COUNT`
    step,           \* index into init_commands / confirm_cmds
    call,           \* the FanController method call in progress
    dynamic_zones,  \* Vec<(u8, EffectiveZoneSettings)>
    dyn_idx,        \* position of `for (zone_num, settings) in &dynamic_zones`
    sent,           \* history: what the device accepted, in order; holds the
                    \* one-shot phase and, in the loop, the set_fan_speed
                    \* call of the zone being updated
    loop_mark,      \* history: Len(sent) when the loop was entered
    polled,         \* history: the zones updated in this iteration of the loop
    init_read,      \* history: Option<outcome of get_feature_report>
    last_read,      \* history: Option<[zone, sensor, temp]> of the last sensor read
    result,         \* what main returned: Running, Ok or the error
    probe           \* inputs and outputs of the encoder functions applied alone

vars == << openable, args, config, pc, controller, zone_num, step, call,
           dynamic_zones, dyn_idx, sent, loop_mark, polled, init_read, last_read,
           result, probe >>

Running == [tag |-> "Running", val |-> <<>>]

NoCall ==
    [fn |-> "none", fan |-> 0, r |-> 0, g |-> 0, b |-> 0, brightness |-> 0,
     speed |-> 0, from |-> "none"]

ColorCall(fan, r, g, b, brightness, from) ==
    [fn |-> "set_fan_color", fan |-> fan, r |-> r, g |-> g, b |-> b,
     brightness |-> brightness, speed |-> 0, from |-> from]

SpeedCall(fan, speed, from) ==
    [fn |-> "set_fan_speed", fan |-> fan, r |-> 0, g |-> 0, b |-> 0,
     brightness |-> 0, speed |-> speed, from |-> from]

Feature(data) == [op |-> "send_feature_report", data |-> data]
Write(data)   == [op |-> "write", data |-> data]

model_config == Unwrap(controller).model_config

(* the settings main resolves for a zone (main.rs 480-487, 499-506, 515-522) *)
Effective(zone) ==
    get_effective_settings(get_zone_config(config, zone), get_global_config(config),
                           args, model_config)

(* `?` on an Err, or main returning: the process ends *)
Exit(res) == pc' = "exit" /\ result' = res

HidError == Err("HidApi", <<>>)

(* ---------------------------------------------------------------------- *)
(* FanController::open (main.rs 148-167)                                   *)
(* ---------------------------------------------------------------------- *)
RECURSIVE TryOpen(_, _)
(* the for loop over SUPPORTED_PRODUCT_IDS from index i on *)
TryOpen(can_open, i) ==
    IF i > Len(SUPPORTED_PRODUCT_IDS) THEN Err("DeviceNotFound", <<>>)
    ELSE IF SUPPORTED_PRODUCT_IDS[i] \in can_open
         THEN Ok([product_id   |-> SUPPORTED_PRODUCT_IDS[i],
                  model_config |-> get_model_config(SUPPORTED_PRODUCT_IDS[i])])
         ELSE TryOpen(can_open, i + 1)

RECURSIVE LastOpen(_, _)
(* a loop that does not return at the first success *)
LastOpen(can_open, i) ==
    IF i < 1 THEN Err("DeviceNotFound", <<>>)
    ELSE IF SUPPORTED_PRODUCT_IDS[i] \in can_open
         THEN Ok([product_id   |-> SUPPORTED_PRODUCT_IDS[i],
                  model_config |-> get_model_config(SUPPORTED_PRODUCT_IDS[i])])
         ELSE LastOpen(can_open, i - 1)

FanController_open_Last(can_open) == LastOpen(can_open, Len(SUPPORTED_PRODUCT_IDS))

FanController_open(can_open) == TryOpen(can_open, 1)

RECURSIVE AttemptsFrom(_, _)
(* the product ids handed to api.open by the loop from index i on: the     *)
(* loop returns at the first Ok and continues after an Err                 *)
AttemptsFrom(can_open, i) ==
    IF i > Len(SUPPORTED_PRODUCT_IDS) THEN <<>>
    ELSE IF SUPPORTED_PRODUCT_IDS[i] \in can_open
         THEN << SUPPORTED_PRODUCT_IDS[i] >>
         ELSE << SUPPORTED_PRODUCT_IDS[i] >> \o AttemptsFrom(can_open, i + 1)

Open ==
    /\ pc = "open"
    /\ \/ /\ Exit(HidError)                       \* HidApi::new()? fails
          /\ UNCHANGED << controller, step >>
       \/ LET opened == FanController_open(openable)
          IN  IF IsOk(opened)
              THEN /\ controller' = opened.val
                   /\ pc' = "init"
                   /\ step' = 1
                   /\ UNCHANGED result
              ELSE /\ Exit(opened)
                   /\ UNCHANGED << controller, step >>
    /\ UNCHANGED << openable, args, config, zone_num, call, dynamic_zones,
                    dyn_idx, sent, loop_mark, polled, init_read, last_read, probe >>

(* ---------------------------------------------------------------------- *)
(* FanController::send_init (main.rs 169-193), called at main.rs 473       *)
(* ---------------------------------------------------------------------- *)
SendInitCmd ==
    /\ pc = "init"
    /\ \/ /\ sent' = Append(sent, Feature(init_commands[step]))
          /\ IF step < Len(init_commands)
             THEN step' = step + 1 /\ pc' = "init"
             ELSE step' = 0 /\ pc' = "init_read"
          /\ UNCHANGED result
       \/ /\ Exit(HidError)
          /\ UNCHANGED << sent, step >>
    /\ UNCHANGED << openable, args, config, controller, zone_num, call,
                    dynamic_zones, dyn_idx, loop_mark, polled, init_read, last_read, probe >>

(* mutant: the read is followed by `?` *)
InitRead_Fatal ==
    /\ pc = "init_read"
    /\ \E ok \in BOOLEAN :
          /\ init_read' = Some(ok)
          /\ IF ok THEN pc' = "color" /\ UNCHANGED result
                   ELSE Exit(HidError)
    /\ zone_num' = 0
    /\ UNCHANGED << openable, args, config, controller, step, call, dynamic_zones,
                    dyn_idx, sent, loop_mark, polled, last_read, probe >>

(* get_feature_report: Ok and Err both fall through to Ok(()) *)
InitRead ==
    /\ pc = "init_read"
    /\ \E ok \in BOOLEAN : init_read' = Some(ok)
    /\ pc' = "color"
    /\ zone_num' = 0
    /\ UNCHANGED << openable, args, config, controller, step, call, dynamic_zones,
                    dyn_idx, sent, loop_mark, polled, last_read, result, probe >>

(* mutant: color and speed are applied zone by zone in one loop *)
ReturnOk_Interleaved ==
    CASE call.from = "colors" ->
            /\ pc' = "fixed"
            /\ UNCHANGED << zone_num, dyn_idx, polled, result >>
      [] call.from = "speeds" ->
            /\ zone_num' = zone_num + 1
            /\ pc' = "color"
            /\ UNCHANGED << dyn_idx, polled, result >>
      [] call.from = "loop" ->
            /\ dyn_idx' = dyn_idx + 1
            /\ polled' = Append(polled, call.fan)
            /\ pc' = "loop"
            /\ UNCHANGED << zone_num, result >>
      [] OTHER ->
            /\ Exit(Ok(<<>>))
            /\ UNCHANGED << zone_num, dyn_idx, polled >>

(* where a FanController method returns to when it returns Ok(()) *)
ReturnOk ==
    CASE call.from = "colors" ->
            /\ zone_num' = zone_num + 1
            /\ pc' = "color"
            /\ UNCHANGED << dyn_idx, polled, result >>
      [] call.from = "speeds" ->
            /\ zone_num' = zone_num + 1
            /\ pc' = "fixed"
            /\ UNCHANGED << dyn_idx, polled, result >>
      [] call.from = "loop" ->
            /\ dyn_idx' = dyn_idx + 1
            /\ polled' = Append(polled, call.fan)
            /\ pc' = "loop"
            /\ UNCHANGED << zone_num, result >>
      [] OTHER ->                                \* a call made on its own
            /\ Exit(Ok(<<>>))
            /\ UNCHANGED << zone_num, dyn_idx, polled >>

(* ---------------------------------------------------------------------- *)
(* main, "Set colors for all zones" (main.rs 478-495)                      *)
(* ---------------------------------------------------------------------- *)
MainColor ==
    /\ pc = "color"
    /\ IF zone_num < FAN_COUNT
       THEN LET es == Effective(zone_num)
            IN  /\ call' = ColorCall(zone_num, es.r, es.g, es.b, es.brightness, "colors")
                /\ pc' = "set_fan_color"
                /\ UNCHANGED zone_num
       ELSE /\ pc' = "fixed"
            /\ zone_num' = 0
            /\ UNCHANGED call
    /\ UNCHANGED << openable, args, config, controller, step, dynamic_zones, dyn_idx,
                    sent, loop_mark, polled, init_read, last_read, result, probe >>

(* ---------------------------------------------------------------------- *)
(* FanController::set_fan_color (main.rs 195-231)                          *)
(* ---------------------------------------------------------------------- *)
(* the validations and device.write(&buf) *)
SetFanColor ==
    /\ pc = "set_fan_color"
    /\ LET chk == ColorCheck(call.fan, call.brightness)
       IN  \/ /\ ~IsOk(chk)
              /\ Exit(chk)
              /\ UNCHANGED << sent, step >>
           \/ /\ IsOk(chk)
              /\ sent' = Append(sent, Write(ColorFrame(call.fan, call.r, call.g, call.b,
                                                       call.brightness)))
              /\ pc' = "confirm"
              /\ step' = 1
              /\ UNCHANGED result
           \/ /\ IsOk(chk)
              /\ Exit(HidError)
              /\ UNCHANGED << sent, step >>
    /\ UNCHANGED << openable, args, config, controller, zone_num, call, dynamic_zones,
                    dyn_idx, loop_mark, polled, init_read, last_read, probe >>

(* one send_feature_report of confirm_cmds *)
SendConfirm ==
    /\ pc = "confirm"
    /\ \/ /\ sent' = Append(sent, Feature(confirm_cmds[step]))
          /\ IF step < Len(confirm_cmds)
             THEN /\ step' = step + 1
                  /\ UNCHANGED << pc, zone_num, dyn_idx, polled, result >>
             ELSE /\ step' = 0
                  /\ ReturnOk
       \/ /\ Exit(HidError)
          /\ UNCHANGED << sent, step, zone_num, dyn_idx, polled >>
    /\ UNCHANGED << openable, args, config, controller, call, dynamic_zones,
                    loop_mark, init_read, last_read, probe >>

(* mutant: the speed flag of the command line is applied, not the         *)
(* resolved speed of the zone                                              *)
MainFixed_CliSpeed ==
    /\ pc = "fixed"
    /\ IF zone_num < FAN_COUNT
       THEN LET es == Effective(zone_num)
            IN  IF es.mode = "Fixed"
                THEN /\ call' = SpeedCall(zone_num, args.speed, "speeds")
                     /\ pc' = "set_fan_speed"
                     /\ UNCHANGED zone_num
                ELSE /\ zone_num' = zone_num + 1
                     /\ UNCHANGED << pc, call >>
       ELSE /\ pc' = "collect"
            /\ UNCHANGED << zone_num, call >>
    /\ UNCHANGED << openable, args, config, controller, step, dynamic_zones, dyn_idx,
                    sent, loop_mark, polled, init_read, last_read, result, probe >>

(* ---------------------------------------------------------------------- *)
(* main, "Set speeds for fixed mode zones" (main.rs 497-510)               *)
(* ---------------------------------------------------------------------- *)
MainFixed ==
    /\ pc = "fixed"
    /\ IF zone_num < FAN_COUNT
       THEN LET es == Effective(zone_num)
            IN  IF es.mode = "Fixed"
                THEN /\ call' = SpeedCall(zone_num, es.speed, "speeds")
                     /\ pc' = "set_fan_speed"
                     /\ UNCHANGED zone_num
                ELSE /\ zone_num' = zone_num + 1
                     /\ UNCHANGED << pc, call >>
       ELSE /\ pc' = "collect"
            /\ UNCHANGED << zone_num, call >>
    /\ UNCHANGED << openable, args, config, controller, step, dynamic_zones, dyn_idx,
                    sent, loop_mark, polled, init_read, last_read, result, probe >>

(* ---------------------------------------------------------------------- *)
(* FanController::set_fan_speed (main.rs 233-260)                          *)
(* ---------------------------------------------------------------------- *)
(* the validations and the manual-mode write *)
SetFanSpeed ==
    /\ pc = "set_fan_speed"
    /\ LET chk == SpeedCheck(call.fan, call.speed, model_config)
       IN  \/ /\ ~IsOk(chk)
              /\ Exit(chk)
              /\ UNCHANGED sent
           \/ /\ IsOk(chk)
              /\ sent' = Append(sent, Write(ManualModeCmd(call.fan, model_config)))
              /\ pc' = "speed_write"
              /\ UNCHANGED result
           \/ /\ IsOk(chk)
              /\ Exit(HidError)
              /\ UNCHANGED sent
    /\ UNCHANGED << openable, args, config, controller, zone_num, step, call,
                    dynamic_zones, dyn_idx, loop_mark, polled, init_read, last_read, probe >>

(* the speed write *)
SpeedWrite ==
    /\ pc = "speed_write"
    /\ \/ /\ sent' = Append(sent, Write(SpeedCmd(call.fan,
                        SpeedByte(call.speed, model_config.min_rpm, model_config.max_rpm))))
          /\ ReturnOk
       \/ /\ Exit(HidError)
          /\ UNCHANGED << sent, zone_num, dyn_idx, polled >>
    /\ UNCHANGED << openable, args, config, controller, step, call, dynamic_zones,
                    loop_mark, init_read, last_read, probe >>

(* ---------------------------------------------------------------------- *)
(* main, "Collect dynamic zones" and the loop (main.rs 512-548)            *)
(* ---------------------------------------------------------------------- *)
(* a collection that does not look at the mode *)
CollectFrom_All(zone) ==
    [k \in 1..(FAN_COUNT - zone) |-> << zone + k - 1, Effective(zone + k - 1) >>]

RECURSIVE CollectFrom(_)
(* the filter_map over zone..FAN_COUNT *)
CollectFrom(zone) ==
    IF zone >= FAN_COUNT THEN <<>>
    ELSE LET settings == Effective(zone)
         IN  IF settings.mode \in {"QuietCpu", "QuietGpu"}
             THEN << <<zone, settings>> >> \o CollectFrom(zone + 1)
             ELSE CollectFrom(zone + 1)

Collect ==
    /\ pc = "collect"
    /\ dynamic_zones' = CollectFrom(0)
    /\ IF dynamic_zones' # <<>>
       THEN /\ pc' = "loop"
            /\ dyn_idx' = 1
            /\ loop_mark' = Len(sent)
            /\ UNCHANGED result
       ELSE /\ Exit(Ok(<<>>))
            /\ UNCHANGED << dyn_idx, loop_mark >>
    /\ UNCHANGED << openable, args, config, controller, zone_num, step, call, sent,
                    polled, init_read, last_read, probe >>

(* what the sensor libraries can report at one poll *)
Component(is_cpu, t) == [cpu_label |-> is_cpu, temperature |-> t]

CpuEnvs ==
    { <<>>,
      << Component(TRUE, Some(70)), Component(FALSE, Some(99)), Component(TRUE, Some(64)) >>,
      << Component(FALSE, Some(96)), Component(TRUE, None), Component(FALSE, Some(30)) >> }

NoHwmon == << <<>>, <<>>, <<>>, <<>>, <<>> >>

GpuEnvs ==
    { [nvml_init |-> TRUE,  device0 |-> TRUE,  temperature |-> Some(65), hwmon |-> NoHwmon],
      [nvml_init |-> TRUE,  device0 |-> TRUE,  temperature |-> None,
       hwmon |-> << <<Some(40000)>>, <<>>, <<>>, <<>>, <<>> >>],
      [nvml_init |-> FALSE, device0 |-> FALSE, temperature |-> None,
       hwmon |-> << <<>>, <<None>>, <<None, Some(88000)>>, <<Some(20000)>>, <<>> >>],
      [nvml_init |-> TRUE,  device0 |-> FALSE, temperature |-> None, hwmon |-> NoHwmon] }

(* one pass of `for (zone_num, settings) in &dynamic_zones`: the sensor    *)
(* read and map_temp_to_rpm; set_fan_speed follows.  The history lets go   *)
(* of the set_fan_speed call of the zone before.                           *)
MainLoop ==
    /\ pc = "loop"
    /\ \/ /\ dyn_idx <= Len(dynamic_zones)
          /\ dynamic_zones[dyn_idx][2].mode = "QuietCpu"
          /\ \E components \in CpuEnvs :
                LET temp == Unwrap(get_cpu_temp(components).val)
                    rpm  == map_temp_to_rpm(temp, model_config.min_rpm, model_config.max_rpm)
                IN  /\ last_read' = Some([zone |-> dynamic_zones[dyn_idx][1],
                                          sensor |-> "cpu", temp |-> temp])
                    /\ call' = SpeedCall(dynamic_zones[dyn_idx][1], rpm, "loop")
          /\ pc' = "set_fan_speed"
          /\ sent' = SubSeq(sent, 1, loop_mark)
          /\ UNCHANGED result
       \/ /\ dyn_idx <= Len(dynamic_zones)
          /\ dynamic_zones[dyn_idx][2].mode = "QuietGpu"
          /\ \E gpu \in GpuEnvs :
                LET read == get_gpu_temp(gpu)
                    temp == Unwrap(read.val)
                    rpm  == map_temp_to_rpm(temp, model_config.min_rpm, model_config.max_rpm)
                IN  IF IsOk(read)
                    THEN /\ last_read' = Some([zone |-> dynamic_zones[dyn_idx][1],
                                               sensor |-> "gpu", temp |-> temp])
                         /\ call' = SpeedCall(dynamic_zones[dyn_idx][1], rpm, "loop")
                         /\ pc' = "set_fan_speed"
                         /\ sent' = SubSeq(sent, 1, loop_mark)
                         /\ UNCHANGED result
                    ELSE /\ Exit(read)               \* get_gpu_temp()?
                         /\ UNCHANGED << last_read, call, sent >>
       \/ /\ dyn_idx > Len(dynamic_zones)
          /\ pc' = "sleep"
          /\ UNCHANGED << last_read, call, result, sent >>
    /\ UNCHANGED << openable, args, config, controller, zone_num, step, dynamic_zones,
                    dyn_idx, loop_mark, polled, init_read, probe >>

(* sleep(Duration::from_secs(5)) and back to the head of `loop` *)
Sleep ==
    /\ pc = "sleep"
    /\ pc' = "loop"
    /\ dyn_idx' = 1
    /\ polled' = <<>>
    /\ sent' = SubSeq(sent, 1, loop_mark)
    /\ last_read' = None
    /\ UNCHANGED << openable, args, config, controller, zone_num, step, call,
                    dynamic_zones, loop_mark, init_read, result, probe >>

(* ---------------------------------------------------------------------- *)
(* Inputs of a run                                                         *)
(* ---------------------------------------------------------------------- *)
OpenableSets == { {}, {41221, 41218}, {30544} }

Hex_A1B2C3 == << "#", "A", "1", "B", "2", "C", "3" >>
Hex_0000ff == << "0", "0", "0", "0", "f", "f" >>
Hex_ZZZZZZ == << "Z", "Z", "Z", "Z", "Z", "Z" >>

NoZone ==
    [enabled |-> None, color |-> None, red |-> None, green |-> None, blue |-> None,
     brightness |-> None, speed |-> None, mode |-> None]

NoGlobal ==
    [color |-> None, red |-> None, green |-> None, blue |-> None,
     brightness |-> None, speed |-> None, mode |-> None]

ZoneConfigs ==
    { None,
      Some([NoZone EXCEPT !.enabled = Some(FALSE), !.mode = Some("QuietCpu"),
                          !.color = Some(Hex_A1B2C3), !.brightness = Some(150),
                          !.speed = Some(5000)]),
      Some([NoZone EXCEPT !.mode = Some("QuietCpu"), !.speed = Some(100),
                          !.red = Some(9)]),
      Some([NoZone EXCEPT !.mode = Some("QuietGpu"), !.enabled = Some(TRUE),
                          !.color = Some(Hex_ZZZZZZ), !.brightness = Some(150)]),
      Some([NoZone EXCEPT !.mode = Some("Fixed"), !.speed = Some(2000),
                          !.brightness = Some(78), !.red = Some(150),
                          !.green = Some(0), !.blue = Some(255)]) }

GlobalConfigs ==
    { None,
      Some([NoGlobal EXCEPT !.color = Some(Hex_0000ff), !.brightness = Some(42),
                            !.mode = Some("QuietGpu")]),
      Some([NoGlobal EXCEPT !.color = Some(Hex_ZZZZZZ), !.red = Some(10),
                            !.green = Some(20), !.blue = Some(30),
                            !.speed = Some(1900)]) }

(* the default_value of every flag of Args (main.rs 63-74) *)
DefaultArgs ==
    [red |-> 255, green |-> 5, blue |-> 5, brightness |-> 100, speed |-> 1350,
     mode |-> "Fixed"]

ArgsSet ==
    { DefaultArgs,
      [red |-> 255, green |-> 0, blue |-> 0, brightness |-> 50, speed |-> 1200,
       mode |-> "Fixed"] }

(* a config file has at most MaxZoneSections of the four [zone_N] sections *)
MaxZoneSections == 2

ZoneLayouts ==
    { zs \in [1..FAN_COUNT -> ZoneConfigs] :
        Cardinality({ z \in 1..FAN_COUNT : IsSome(zs[z]) }) <= MaxZoneSections }

Configs ==
    { None } \cup
    { Some([global |-> g, zones |-> zs]) : g \in GlobalConfigs, zs \in ZoneLayouts }

(* --mode quiet-cpu with a --speed outside every model's range *)
QuietArgs == [DefaultArgs EXCEPT !.mode = "QuietCpu", !.speed = 5000]

(* a zone section with enabled = false that also asks for quiet-cpu *)
DisabledQuietZone ==
    Some([NoZone EXCEPT !.enabled = Some(FALSE), !.mode = Some("QuietCpu"),
                        !.color = Some(Hex_A1B2C3), !.brightness = Some(150),
                        !.speed = Some(5000)])

(* the config files that are also run under QuietArgs: one disabled zone,  *)
(* without a global section and with a global section asking for quiet-gpu *)
QuietCliConfigs ==
    { Some([global |-> None,
            zones  |-> << DisabledQuietZone, None, None, None >>]),
      Some([global |-> Some([NoGlobal EXCEPT !.color = Some(Hex_0000ff),
                                             !.brightness = Some(42),
                                             !.mode = Some("QuietGpu")]),
            zones  |-> << None, None, DisabledQuietZone, None >>]) }

(* a run of main: without a config file under any of the command lines,   *)
(* with a config file under the default command line, and for the config   *)
(* files of QuietCliConfigs also under QuietArgs                           *)
InitMain ==
    /\ openable \in OpenableSets
    /\ config \in Configs
    /\ args \in (IF ~IsSome(config) THEN ArgsSet \cup {QuietArgs}
                 ELSE IF config \in QuietCliConfigs THEN {DefaultArgs, QuietArgs}
                 ELSE {DefaultArgs})
    /\ pc = "open"
    /\ controller = None
    /\ zone_num = 0
    /\ step = 0
    /\ call = NoCall
    /\ dynamic_zones = <<>>
    /\ dyn_idx = 0
    /\ sent = <<>>
    /\ loop_mark = 0
    /\ polled = <<>>
    /\ init_read = None
    /\ last_read = None
    /\ result = Running
    /\ probe = <<>>

(* ---------------------------------------------------------------------- *)
(* A FanController method called on its own, with any arguments: zones up  *)
(* to MaxFanIn, brightness and speed up to MaxOver beyond their ranges     *)
(* ---------------------------------------------------------------------- *)
MaxFanIn == 5
MaxOver == 2

CallPids == { 30544, 41218, 41219 }

ColorSamples == { <<255, 5, 5>>, <<150, 225, 100>> }

BrightnessSamples ==
    { 0, 42, BRIGHTNESS_MAX } \cup { 0 - over : over \in 1..MaxOver }
                              \cup { BRIGHTNESS_MAX + over : over \in 1..MaxOver }

SpeedSamples(mc) ==
    { 0, mc.min_rpm, (mc.min_rpm + mc.max_rpm) \div 2, mc.max_rpm, 65535 }
        \cup { mc.min_rpm - over : over \in 1..MaxOver }
        \cup { mc.max_rpm + over : over \in 1..MaxOver }

CallInputs(mc) ==
    { ColorCall(fan, c[1], c[2], c[3], br, "caller") :
        fan \in 0..MaxFanIn, c \in ColorSamples, br \in BrightnessSamples }
    \cup { SpeedCall(fan, speed, "caller") : fan \in 0..MaxFanIn, speed \in SpeedSamples(mc) }

InitCall ==
    /\ openable = {}
    /\ args = DefaultArgs
    /\ config = None
    /\ \E pid \in CallPids :
          /\ controller = Some([product_id |-> pid, model_config |-> get_model_config(pid)])
          /\ call \in CallInputs(get_model_config(pid))
    /\ pc = call.fn
    /\ zone_num = 0
    /\ step = 0
    /\ dynamic_zones = <<>>
    /\ dyn_idx = 0
    /\ sent = <<>>
    /\ loop_mark = 0
    /\ polled = <<>>
    /\ init_read = None
    /\ last_read = None
    /\ result = Running
    /\ probe = <<>>

StandaloneCall == call.from = "caller"

Init == InitMain \/ InitCall

Next ==
    \/ Open
    \/ SendInitCmd
    \/ InitRead
    \/ MainColor
    \/ SetFanColor
    \/ SendConfirm
    \/ MainFixed
    \/ SetFanSpeed
    \/ SpeedWrite
    \/ Collect
    \/ MainLoop
    \/ Sleep

Spec == Init /\ [][Next]_vars

(* ---------------------------------------------------------------------- *)
(* The encoders applied alone: the channel scaling and the frame of        *)
(* set_fan_color, the speed byte of set_fan_speed, over their whole input  *)
(* ranges.  probe = [fn, in, out], out = None until the function ran.      *)
(* ---------------------------------------------------------------------- *)
Probe(fn, in) == [fn |-> fn, in |-> in, out |-> None]

FrameColors == { <<255, 0, 0>>, <<255, 5, 5>>, <<1, 2, 3>>, <<150, 225, 100>> }
FrameBrightness == 0..BRIGHTNESS_MAX

(* product ids asked of get_model_config: the supported ones and one other *)
ProbePids == { SUPPORTED_PRODUCT_IDS[i] : i \in 1..Len(SUPPORTED_PRODUCT_IDS) } \cup { 0 }

ProbeInputs ==
    { Probe("scale", <<c, brightness>>) :
        c \in 0..U8_MAX, brightness \in 0..BRIGHTNESS_MAX }
    \cup { Probe("color_frame", <<fan, c[1], c[2], c[3], brightness>>) :
        fan \in 0..(FAN_COUNT - 1), c \in FrameColors, brightness \in FrameBrightness }
    \cup UNION { { Probe("speed_byte", <<pid, speed>>) :
                    speed \in (get_model_config(pid).min_rpm - MaxOver)
                              ..(get_model_config(pid).max_rpm + MaxOver) } :
                 pid \in ProbePids }

InitEncode ==
    /\ probe \in ProbeInputs
    /\ pc = "encode"
    /\ openable = {}
    /\ args = DefaultArgs
    /\ config = None
    /\ controller = None
    /\ zone_num = 0
    /\ step = 0
    /\ call = NoCall
    /\ dynamic_zones = <<>>
    /\ dyn_idx = 0
    /\ sent = <<>>
    /\ loop_mark = 0
    /\ polled = <<>>
    /\ init_read = None
    /\ last_read = None
    /\ result = Running

NotProbe ==
    << openable, args, config, pc, controller, zone_num, step, call, dynamic_zones,
       dyn_idx, sent, loop_mark, polled, init_read, last_read, result >>

(* scaled_r / scaled_g / scaled_b of set_fan_color (main.rs 204-207) *)
EncodeScale ==
    /\ pc = "encode"
    /\ probe.fn = "scale"
    /\ probe.out = None
    /\ probe' = [probe EXCEPT !.out = Some(ScaleChannel(probe.in[1], probe.in[2]))]
    /\ UNCHANGED NotProbe

(* the validations and the buffer of set_fan_color (main.rs 195-216) *)
EncodeColorFrame ==
    /\ pc = "encode"
    /\ probe.fn = "color_frame"
    /\ probe.out = None
    /\ LET in  == probe.in
           chk == ColorCheck(in[1], in[5])
       IN  probe' = [probe EXCEPT !.out =
                        Some(IF IsOk(chk)
                             THEN Ok(ColorFrame(in[1], in[2], in[3], in[4], in[5]))
                             ELSE chk)]
    /\ UNCHANGED NotProbe

(* the validations and speed_byte of set_fan_speed (main.rs 233-254) *)
EncodeSpeed ==
    /\ pc = "encode"
    /\ probe.fn = "speed_byte"
    /\ probe.out = None
    /\ LET mc  == get_model_config(probe.in[1])
           chk == SpeedCheck(0, probe.in[2], mc)
       IN  probe' = [probe EXCEPT !.out =
                        Some(IF IsOk(chk)
                             THEN Ok(SpeedByte(probe.in[2], mc.min_rpm, mc.max_rpm))
                             ELSE chk)]
    /\ UNCHANGED NotProbe

NextEncode ==
    \/ EncodeScale
    \/ EncodeColorFrame
    \/ EncodeSpeed

SpecEncode == InitEncode /\ [][NextEncode]_vars

(* ---------------------------------------------------------------------- *)
(* The temperature mapper, the hex parser and the resolution engine        *)
(* applied alone.  probe = [fn, in, out] as above.                         *)
(* ---------------------------------------------------------------------- *)
(* calibrations handed to map_temp_to_rpm: those of get_model_config and   *)
(* three others with max_rpm > min_rpm                                     *)
ProbeCalibrations ==
    { <<get_model_config(pid).min_rpm, get_model_config(pid).max_rpm>> : pid \in ProbePids }
        \cup { <<0, 1>>, <<1000, 1035>>, <<0, 65535>> }

(* temperatures from below TEMP_LOW to above TEMP_HIGH *)
ProbeTemps == (TEMP_LOW - 70)..(TEMP_HIGH + 35)

MapTempInputs ==
    { Probe("map_temp_to_rpm", <<temp, cal[1], cal[2]>>) :
        temp \in ProbeTemps, cal \in ProbeCalibrations }

(* zone and global sections for get_effective_settings: every field       *)
(* absent or present, each layer with values of its own                    *)
ResolveZoneConfigs ==
    { None } \cup
    { Some([enabled |-> en, color |-> co, red |-> rgb[1], green |-> rgb[2], blue |-> rgb[3],
            brightness |-> br, speed |-> sp, mode |-> mo]) :
        en  \in { None, Some(TRUE), Some(FALSE) },
        co  \in { None, Some(Hex_A1B2C3), Some(Hex_ZZZZZZ) },
        rgb \in { <<None, None, None>>, <<Some(9), None, None>>,
                  <<Some(150), Some(0), Some(255)>> },
        br  \in { None, Some(0), Some(150) },
        sp  \in { None, Some(5000) },
        mo  \in { None, Some("QuietCpu") } }

ResolveGlobalConfigs ==
    { None } \cup
    { Some([color |-> co, red |-> rgb[1], green |-> rgb[2], blue |-> rgb[3],
            brightness |-> br, speed |-> sp, mode |-> mo]) :
        co  \in { None, Some(Hex_0000ff), Some(Hex_ZZZZZZ) },
        rgb \in { <<None, None, None>>, <<Some(10), Some(20), Some(30)>> },
        br  \in { None, Some(42) },
        sp  \in { None, Some(1900) },
        mo  \in { None, Some("QuietGpu") } }

ResolveArgs ==
    [red |-> 255, green |-> 0, blue |-> 0, brightness |-> 50, speed |-> 1200,
     mode |-> "Fixed"]

ResolvePids == { 30544, 41218 }

ResolveInputs ==
    { Probe("get_effective_settings", <<zc, gc, ResolveArgs, pid>>) :
        zc \in ResolveZoneConfigs, gc \in ResolveGlobalConfigs, pid \in ResolvePids }

(* strings handed to parse_hex_color: well-formed ones, wrong lengths,     *)
(* characters that are no hex digits, signs, and '#' in several places     *)
HexSamples ==
    { <<"#", "A", "1", "B", "2", "C", "3">>,
      <<"A", "1", "B", "2", "C", "3">>,
      <<"0", "0", "0", "0", "f", "f">>,
      <<"a", "1", "b", "2", "c", "3">>,
      <<"A", "B", "C">>,
      <<"Z", "Z", "Z", "Z", "Z", "Z">>,
      <<>>,
      <<"#">>,
      <<"1", "2", "3", "4", "5", "6", "7">>,
      <<"#", "1", "2", "3", "4", "5">>,
      <<"+", "1", "+", "2", "+", "3">>,
      <<"#", "+", "1", "+", "2", "+", "3">>,
      <<"#", "#", "A", "1", "B", "2", "C", "3">>,
      <<"#", "#", "#", "0", "0", "0", "0", "f", "f">>,
      <<"A", "1", "B", "2", "C", "3", "#">>,
      <<"A", "1", "#", "2", "C", "3">>,
      <<"-", "1", "-", "2", "-", "3">>,
      <<"1", "+", "2", "3", "4", "5">>,
      <<"+", "+", "1", "2", "3", "4">>,
      <<"#", "Z", "Z", "Z", "Z", "Z", "Z">>,
      <<"1", "2", "3", "4", "5", "G">> }

ParseHexInputs == { Probe("parse_hex_color", <<str>>) : str \in HexSamples }

ApplyInputs == MapTempInputs \cup ResolveInputs \cup ParseHexInputs

InitApply ==
    /\ probe \in ApplyInputs
    /\ pc = "apply"
    /\ openable = {}
    /\ args = DefaultArgs
    /\ config = None
    /\ controller = None
    /\ zone_num = 0
    /\ step = 0
    /\ call = NoCall
    /\ dynamic_zones = <<>>
    /\ dyn_idx = 0
    /\ sent = <<>>
    /\ loop_mark = 0
    /\ polled = <<>>
    /\ init_read = None
    /\ last_read = None
    /\ result = Running

(* map_temp_to_rpm (main.rs 277-288) *)
ApplyMapTemp ==
    /\ pc = "apply"
    /\ probe.fn = "map_temp_to_rpm"
    /\ probe.out = None
    /\ probe' = [probe EXCEPT !.out =
                     Some(map_temp_to_rpm(probe.in[1], probe.in[2], probe.in[3]))]
    /\ UNCHANGED NotProbe

(* get_effective_settings (main.rs 356-379) for the controller bound to   *)
(* the product id probe.in[4]                                              *)
ApplyResolve ==
    /\ pc = "apply"
    /\ probe.fn = "get_effective_settings"
    /\ probe.out = None
    /\ probe' = [probe EXCEPT !.out =
                     Some(get_effective_settings(probe.in[1], probe.in[2], probe.in[3],
                                                 get_model_config(probe.in[4])))]
    /\ UNCHANGED NotProbe

(* parse_hex_color (main.rs 263-275) *)
ApplyParseHex ==
    /\ pc = "apply"
    /\ probe.fn = "parse_hex_color"
    /\ probe.out = None
    /\ probe' = [probe EXCEPT !.out = Some(parse_hex_color(probe.in[1]))]
    /\ UNCHANGED NotProbe

NextApply ==
    \/ ApplyMapTemp
    \/ ApplyResolve
    \/ ApplyParseHex

SpecApply == InitApply /\ [][NextApply]_vars

(* ====================================================================== *)
(* Properties                                                              *)
(* ====================================================================== *)
Zones == 0..(FAN_COUNT - 1)

(* a run of main that has opened the device *)
InRun == ~StandaloneCall /\ pc \notin {"encode", "apply"} /\ IsSome(controller)

Exited == pc = "exit"

(* shapes of the frames on the wire *)
IsInitReport(e, k) == e.op = "send_feature_report" /\ e.data = init_commands[k]

IsColorFrame(e) ==
    e.op = "write" /\ Len(e.data) = COLOR_BUFFER_SIZE /\ e.data[1] = REPORT_ID

IsColorFrameFor(e, z) == IsColorFrame(e) /\ e.data[2] = SET_COLOR_CMD_BASE + z

IsConfirmReport(e, k) ==
    /\ e.op = "send_feature_report" /\ Len(e.data) = 11 /\ e.data[1] = REPORT_ID
    /\ e.data[2] = <<SET_SPEED_CMD, 17, 96>>[k]

IsManualMode(e) ==
    e.op = "write" /\ Len(e.data) = 4 /\ e.data[1] = REPORT_ID /\ e.data[2] = SET_SPEED_CMD

IsManualModeFor(e, z) == IsManualMode(e) /\ e.data[4] = 16 * Pow2(z)

IsSpeedWrite(e) ==
    e.op = "write" /\ Len(e.data) = 4 /\ e.data[1] = REPORT_ID
                   /\ 32 <= e.data[2] /\ e.data[2] < 32 + FAN_COUNT

IsSpeedWriteFor(e, z) == IsSpeedWrite(e) /\ e.data[2] = 32 + z

(* every zone resolves to Fixed; every resolved brightness and speed valid *)
AllFixed == \A z \in Zones : Effective(z).mode = "Fixed"

AllValid ==
    \A z \in Zones :
        LET es == Effective(z)
        IN  /\ 0 <= es.brightness /\ es.brightness <= 100
            /\ model_config.min_rpm <= es.speed
            /\ es.speed <= model_config.max_rpm

(* the i-th command of the one-shot run of four Fixed zones: 5 init        *)
(* reports, 4 x (color frame, 3 confirmations), 4 x (manual mode, speed)   *)
FixedRunLen == 5 + 4 * FAN_COUNT + 2 * FAN_COUNT

FixedRunShape(e, i) ==
    IF i <= 5 THEN IsInitReport(e, i)
    ELSE IF i <= 21
         THEN LET z == (i - 6) \div 4
                  k == (i - 6) % 4
              IN  IF k = 0 THEN IsColorFrameFor(e, z) ELSE IsConfirmReport(e, k)
         ELSE LET z == (i - 22) \div 2
              IN  IF (i - 22) % 2 = 0 THEN IsManualModeFor(e, z) ELSE IsSpeedWriteFor(e, z)

FixedRunPrefix ==
    /\ Len(sent) <= FixedRunLen
    /\ \A i \in 1..Len(sent) : FixedRunShape(sent[i], i)

(* C1 as stated: in a run where every zone resolves to Fixed, the device   *)
(* opens and no transport call fails, the commands sent are exactly the 5  *)
(* init reports, then per zone a color frame and 3 confirmations, then per *)
(* zone a manual-mode write and a speed write, and the run ends with Ok.   *)
C1_AsStated ==
    (InRun /\ AllFixed /\ Exited /\ result.tag # "HidApi")
        => (result.tag = "Ok" /\ Len(sent) = FixedRunLen /\ FixedRunPrefix)

(* C1 amended: the same for the runs in which every zone's resolved        *)
(* brightness is within [0,100] and resolved speed within the RPM range of *)
(* the bound model: what was sent is always a prefix of that sequence, the *)
(* polling loop is never entered, and the run that ends without a          *)
(* transport error ends with Ok after the whole sequence.                  *)
C1_FixedRunSequence ==
    (InRun /\ AllFixed /\ AllValid)
        => /\ FixedRunPrefix
           /\ pc \notin {"loop", "sleep"}
           /\ (Exited /\ result.tag # "HidApi")
                 => (result.tag = "Ok" /\ Len(sent) = FixedRunLen)

C1_Witness ==
    /\ InRun /\ AllFixed /\ AllValid /\ Exited
    /\ result.tag = "Ok"
    /\ Len(sent) = FixedRunLen
    /\ config = None
    /\ args.brightness = 50 /\ args.speed = 1200

(* indices of the history *)
Idx == 1..Len(sent)

(* a confirmed color frame of zone z lies wholly before position i *)
ColorConfirmedBefore(z, i) ==
    \E j \in Idx :
        /\ j + 3 < i
        /\ IsColorFrameFor(sent[j], z)
        /\ \A k \in 1..3 : IsConfirmReport(sent[j + k], k)

(* C2: in every run, whatever the zone modes, each zone receives at most   *)
(* one color frame, color frames go out in ascending zone order, no        *)
(* manual-mode or speed command is sent before the color frame of zone 3   *)
(* and its confirmation, and no color frame follows a manual-mode or speed *)
(* command, in the one-shot phase or in the loop.                          *)
C2_ColorsOnceBeforeSpeeds ==
    InRun =>
        /\ \A i \in Idx :
              IsColorFrame(sent[i])
                  => \A j \in Idx :
                        (i < j /\ IsColorFrame(sent[j]))
                            => sent[i].data[2] < sent[j].data[2]
        /\ \A i \in Idx :
              (IsManualMode(sent[i]) \/ IsSpeedWrite(sent[i]))
                  => /\ ColorConfirmedBefore(FAN_COUNT - 1, i)
                     /\ \A j \in Idx : j > i => ~IsColorFrame(sent[j])

C2_Witness ==
    /\ InRun
    /\ call.from = "loop"
    /\ pc = "loop"
    /\ \E z \in Zones : Effective(z).mode = "Fixed"
    /\ \E z \in Zones : Effective(z).mode = "QuietCpu"
    /\ \E z \in Zones : Effective(z).mode = "QuietGpu"
    /\ Cardinality({ i \in Idx : IsColorFrame(sent[i]) }) = FAN_COUNT
    /\ IsSpeedWrite(sent[Len(sent)])
    /\ Len(sent) > loop_mark

(* the speed commands of zone z in the history *)
SpeedIdx(z) == { i \in Idx : IsSpeedWriteFor(sent[i], z) }

(* step 2 of the scheduler (the speeds of the Fixed zones) ran to its end *)
Step2Done ==
    \/ pc = "collect"
    \/ dynamic_zones # <<>>
    \/ Exited /\ result.tag = "Ok"

(* byte = 1 + round((rpm - lo) / (hi - lo) * 254), halves rounded up *)
IsClaimedSpeedByte(byte, rpm, lo, hi) ==
    \E k \in 0..254 :
        /\ byte = 1 + k
        /\ (2 * k - 1) * (hi - lo) <= 2 * 254 * (rpm - lo)
        /\ 2 * 254 * (rpm - lo) < (2 * k + 1) * (hi - lo)

(* C3: a zone that resolves to Fixed has at most one speed command in      *)
(* every state of a run, exactly one once the speeds of the Fixed zones    *)
(* were applied, carrying the zone's resolved speed, and none from inside  *)
(* the polling loop.                                                       *)
C3_FixedSpeedOnce ==
    InRun =>
        \A z \in Zones :
            LET es     == Effective(z)
                speeds == SpeedIdx(z)
            IN  es.mode = "Fixed" =>
                /\ Cardinality(speeds) <= 1
                /\ Step2Done =>
                      /\ Cardinality(speeds) = 1
                      /\ \A i \in speeds :
                            /\ SubSeq(sent[i].data, 1, 3) = <<REPORT_ID, 32 + z, 0>>
                            /\ IsClaimedSpeedByte(sent[i].data[4], es.speed,
                                    model_config.min_rpm, model_config.max_rpm)
                /\ dynamic_zones # <<>> =>
                      /\ \A i \in speeds : i <= loop_mark
                      /\ \A k \in 1..Len(polled) : polled[k] # z
                      /\ (call.from = "loop" => call.fan # z)

C3_Witness ==
    /\ InRun
    /\ pc = "sleep"
    /\ IsSome(config)
    /\ Effective(0).mode = "QuietCpu"
    /\ Effective(1).mode = "Fixed" /\ Effective(1).speed = 2000
    /\ Effective(3).mode = "Fixed" /\ Effective(3).speed = 1350
    /\ polled = <<0>>
    /\ Cardinality(SpeedIdx(1)) = 1
    /\ Cardinality(SpeedIdx(3)) = 1

(* the zones of dynamic_zones, in order *)
ReactiveZones == [k \in 1..Len(dynamic_zones) |-> dynamic_zones[k][1]]

SensorOf(mode) == IF mode = "QuietCpu" THEN "cpu" ELSE "gpu"

(* C4 as stated: once a run with a reactive zone is in the loop it ends    *)
(* only through a transport error; every reactive zone is updated in every *)
(* iteration, from a reading of its own sensor taken for that update, and  *)
(* the wait comes after all reactive zones were updated.                   *)
C4_AsStated ==
    (InRun /\ dynamic_zones # <<>>) =>
        /\ Exited => result.tag = "HidApi"
        /\ pc = "sleep" => polled = ReactiveZones
        /\ (call.from = "loop" /\ pc \in {"set_fan_speed", "speed_write"}) =>
              /\ IsSome(last_read)
              /\ Unwrap(last_read).zone = call.fan
              /\ Unwrap(last_read).sensor = SensorOf(Effective(call.fan).mode)
              /\ call.speed = map_temp_to_rpm(Unwrap(last_read).temp,
                                  model_config.min_rpm, model_config.max_rpm)

IsPrefix(a, b) == Len(a) <= Len(b) /\ SubSeq(b, 1, Len(a)) = a

BrightnessValid(z) ==
    LET es == Effective(z) IN 0 <= es.brightness /\ es.brightness <= 100

SpeedValid(z) ==
    LET es == Effective(z)
    IN  model_config.min_rpm <= es.speed /\ es.speed <= model_config.max_rpm

(* The run without transport failure, up to the loop: the 5 init reports,  *)
(* the color frame and confirmations of the zones up to the first invalid  *)
(* brightness, and when there is none the manual-mode and speed writes of  *)
(* the Fixed zones up to the first invalid speed.                          *)
NColors == Cardinality({ z \in Zones : \A y \in 0..z : BrightnessValid(y) })

FixedZoneSeq == SelectSeq(<<0, 1, 2, 3>>, LAMBDA z : Effective(z).mode = "Fixed")

NSpeeds ==
    IF NColors < FAN_COUNT THEN 0
    ELSE Cardinality({ k \in 1..Len(FixedZoneSeq) :
                          \A j \in 1..k : SpeedValid(FixedZoneSeq[j]) })

RunOneShotLen == 5 + 4 * NColors + 2 * NSpeeds

(* its i-th command, 1 <= i <= RunOneShotLen *)
RunOneShotAt(i) ==
    IF i <= 5 THEN Feature(init_commands[i])
    ELSE IF i <= 5 + 4 * NColors
    THEN LET z  == (i - 6) \div 4
             k  == (i - 6) % 4
             es == Effective(z)
         IN  IF k = 0 THEN Write(ColorFrame(z, es.r, es.g, es.b, es.brightness))
             ELSE Feature(confirm_cmds[k])
    ELSE LET j == i - 6 - 4 * NColors
             z == FixedZoneSeq[(j \div 2) + 1]
         IN  IF j % 2 = 0 THEN Write(ManualModeCmd(z, model_config))
             ELSE Write(SpeedCmd(z, SpeedByte(Effective(z).speed, model_config.min_rpm,
                                              model_config.max_rpm)))

(* the i-th command of the set_fan_speed call in progress, i in 1..2 *)
RunLoopCallAt(i) ==
    IF i = 1 THEN Write(ManualModeCmd(call.fan, model_config))
    ELSE Write(SpeedCmd(call.fan, SpeedByte(call.speed, model_config.min_rpm,
                                            model_config.max_rpm)))

(* a command was accepted by the device in this step *)
Sends == Len(sent') = Len(sent) + 1 /\ IsPrefix(sent, sent')

(* in the loop the history lets go of the call before; nothing else ever   *)
(* leaves it                                                               *)
Keeps ==
    IF dynamic_zones # <<>> THEN IsPrefix(SubSeq(sent, 1, loop_mark), sent')
    ELSE IsPrefix(sent, sent')

(* C5: a failed write or feature-report send ends the run with the error   *)
(* and nothing is sent after it; every command sent is the next command of *)
(* the run without failure and is never taken back; the feature-report     *)
(* read after the init reports goes on to the colors whether it failed or  *)
(* not.                                                                    *)
C5_NoRetryNoRollback ==
    /\ [][result'.tag = "HidApi" => pc' = "exit"]_vars
    /\ [][result.tag = "HidApi" => (sent' = sent /\ result' = result /\ pc' = pc)]_vars
    /\ [][InRun => (Keeps /\ (Sends \/ Len(sent') <= Len(sent)))]_vars
    /\ [][(InRun /\ Sends /\ dynamic_zones = <<>>)
             => (Len(sent') <= RunOneShotLen /\ sent'[Len(sent')] = RunOneShotAt(Len(sent')))]_vars
    /\ [][(InRun /\ dynamic_zones = <<>> /\ dynamic_zones' # <<>>)
             => loop_mark' = RunOneShotLen]_vars
    /\ [][(InRun /\ Sends /\ dynamic_zones # <<>>)
             => (Len(sent') - loop_mark <= 2
                 /\ sent'[Len(sent')] = RunLoopCallAt(Len(sent') - loop_mark))]_vars
    /\ [][pc = "init_read" => (pc' = "color" /\ result' = result /\ sent' = sent)]_vars

C5_Witness ==
    /\ InRun /\ Exited
    /\ result.tag = "HidApi"
    /\ init_read = Some(FALSE)
    /\ Len(sent) = 5 + 4 * FAN_COUNT + 3
    /\ IsManualMode(sent[Len(sent)])

(* ---------------------------------------------------------------------- *)
(* The encoders                                                            *)
(* ---------------------------------------------------------------------- *)
Probed(fn) == pc = "encode" /\ probe.fn = fn /\ IsSome(probe.out)

(* C6 as stated: for every channel 0..255 and brightness 0..100 the byte   *)
(* set_fan_color puts in the frame is round(channel * brightness / 100)    *)
(* clamped to 255, rounded to nearest; brightness 0 gives 0 and brightness *)
(* 100 gives the channel unchanged.                                        *)
C6_AsStated ==
    Probed("scale") =>
        LET channel    == probe.in[1]
            brightness == probe.in[2]
            scaled     == Unwrap(probe.out)
        IN  /\ scaled = Min(RoundDiv(channel * brightness, 100), 255)
            /\ brightness = 0 => scaled = 0
            /\ brightness = 100 => scaled = channel

(* C7: for every zone 0..3, color and brightness 0..100 the frame of       *)
(* set_fan_color is 353 bytes long, starts with 0xE0 and 0x30 + zone, and  *)
(* goes on with 117 times the triple (scaled_r, scaled_b, scaled_g); no    *)
(* byte is left for padding.                                               *)
C7_ColorFrameLayout ==
    Probed("color_frame") =>
        LET zone       == probe.in[1]
            r          == probe.in[2]
            g          == probe.in[3]
            b          == probe.in[4]
            brightness == probe.in[5]
            out        == Unwrap(probe.out)
            frame      == Unwrap(out.val)
        IN  /\ IsOk(out)
            /\ Len(frame) = 353
            /\ frame[1] = 224
            /\ frame[2] = 48 + zone
            /\ \A k \in 0..116 :
                  /\ frame[3 + 3 * k] = ScaleChannel(r, brightness)
                  /\ frame[4 + 3 * k] = ScaleChannel(b, brightness)
                  /\ frame[5 + 3 * k] = ScaleChannel(g, brightness)
            /\ \A i \in (2 + 3 * 117 + 1)..353 : frame[i] = 0

C7_Witness ==
    /\ Probed("color_frame")
    /\ probe.in = <<2, 150, 225, 100, 42>>
    /\ IsOk(Unwrap(probe.out))
    /\ SubSeq(Unwrap(Unwrap(probe.out).val), 1, 5) = <<224, 50, 62, 42, 94>>
    /\ SubSeq(Unwrap(Unwrap(probe.out).val), 351, 353) = <<62, 42, 94>>

(* C8: for every supported calibration and every rpm within it, the speed  *)
(* byte of set_fan_speed is 1 + round((rpm - min_rpm) / (max_rpm -         *)
(* min_rpm) * 254): it lies in 1..255, is 1 at min_rpm and 255 at max_rpm, *)
(* and is not below the byte of the rpm one lower.                         *)
C8_SpeedByte ==
    Probed("speed_byte") =>
        LET mc  == get_model_config(probe.in[1])
            rpm == probe.in[2]
            out == Unwrap(probe.out)
            speed_byte == Unwrap(out.val)
        IN  (mc.min_rpm <= rpm /\ rpm <= mc.max_rpm) =>
                /\ IsOk(out)
                /\ IsClaimedSpeedByte(speed_byte, rpm, mc.min_rpm, mc.max_rpm)
                /\ 1 <= speed_byte /\ speed_byte <= 255
                /\ rpm = mc.min_rpm => speed_byte = 1
                /\ rpm = mc.max_rpm => speed_byte = 255
                /\ rpm > mc.min_rpm
                      => SpeedByte(rpm - 1, mc.min_rpm, mc.max_rpm) <= speed_byte

C8_Witness ==
    /\ Probed("speed_byte")
    /\ probe.in = <<41218, 1150>>
    /\ Unwrap(probe.out) = Ok(128)

(* ---------------------------------------------------------------------- *)
(* The validations                                                         *)
(* ---------------------------------------------------------------------- *)
SpeedOutOfRange(speed, mc) == speed < mc.min_rpm \/ speed > mc.max_rpm

(* the Fixed zones whose resolved speed is outside the range of the model *)
FixedBad ==
    { z \in Zones :
        LET es == Effective(z)
        IN  /\ es.mode = "Fixed"
            /\ (es.speed < model_config.min_rpm \/ es.speed > model_config.max_rpm) }

(* the zones whose resolved brightness is outside [0,100] *)
BrightnessBad == { z \in Zones : ~BrightnessValid(z) }

FirstOf(S) == CHOOSE z \in S : \A y \in S : z <= y

ColorFramesOf(z) == { i \in Idx : IsColorFrameFor(sent[i], z) }

(* C9: set_fan_speed called for a zone 0..3 with an rpm outside the range  *)
(* of the bound model sends nothing and returns InvalidSpeed with the rpm  *)
(* and both bounds.  In a run (every resolved brightness being valid) the  *)
(* lowest Fixed zone with such an rpm is never sent a manual-mode or speed *)
(* write, the loop is never entered, and the run that meets no transport   *)
(* error ends with InvalidSpeed after the colors of all zones and the      *)
(* speeds of the Fixed zones below it.                                     *)
C9_InvalidSpeedRejected ==
    /\ (StandaloneCall /\ call.fn = "set_fan_speed" /\ call.fan < FAN_COUNT
           /\ SpeedOutOfRange(call.speed, model_config))
          => /\ sent = <<>>
             /\ pc \in {"set_fan_speed", "exit"}
             /\ Exited => result = Err("InvalidSpeed",
                                       <<call.speed, model_config.min_rpm,
                                         model_config.max_rpm>>)
    /\ (InRun /\ FixedBad # {} /\ BrightnessBad = {})
          => LET z0    == FirstOf(FixedBad)
                 below == { z \in 0..(z0 - 1) : Effective(z).mode = "Fixed" }
             IN  /\ \A i \in Idx : ~IsManualModeFor(sent[i], z0) /\ ~IsSpeedWriteFor(sent[i], z0)
                 /\ dynamic_zones = <<>>
                 /\ pc \notin {"collect", "loop", "sleep"}
                 /\ Exited => result.tag \in {"HidApi", "InvalidSpeed"}
                 /\ (Exited /\ result.tag = "InvalidSpeed")
                       => /\ result.val = <<Effective(z0).speed, model_config.min_rpm,
                                            model_config.max_rpm>>
                          /\ call.fan = z0
                          /\ Len(sent) = 5 + 4 * FAN_COUNT + 2 * Cardinality(below)
                          /\ \A z \in Zones : Cardinality(ColorFramesOf(z)) = 1
                          /\ \A z \in below : Cardinality(SpeedIdx(z)) = 1

(* a call on its own rejected *)
C9_CallWitness ==
    /\ StandaloneCall /\ Exited
    /\ call.fn = "set_fan_speed" /\ call.fan = 2
    /\ result = Err("InvalidSpeed", <<2101, 200, 2100>>)
    /\ sent = <<>>

(* a run that applied the speed of zone 0 and stopped at zone 1 *)
C9_Witness ==
    /\ InRun /\ Exited
    /\ FixedBad = {1}
    /\ Effective(0).mode = "Fixed"
    /\ result = Err("InvalidSpeed", <<2000, 800, 1900>>)
    /\ Len(sent) = 5 + 4 * FAN_COUNT + 2
    /\ IsSpeedWriteFor(sent[Len(sent)], 0)

(* C10: set_fan_color called with a zone >= 4 returns InvalidFan with the  *)
(* zone; called for a zone 0..3 with a brightness outside [0,100] it       *)
(* returns InvalidBrightness with the brightness; either way nothing is    *)
(* sent.  In a run the lowest zone with such a brightness gets no color    *)
(* frame, no zone above it gets one, no manual-mode or speed write is ever *)
(* sent, and the run that meets no transport error ends with               *)
(* InvalidBrightness after the color frames of the zones below.            *)
C10_InvalidColorCallRejected ==
    /\ (StandaloneCall /\ call.fn = "set_fan_color" /\ call.fan >= FAN_COUNT)
          => /\ sent = <<>>
             /\ pc \in {"set_fan_color", "exit"}
             /\ Exited => result = Err("InvalidFan", <<call.fan>>)
    /\ (StandaloneCall /\ call.fn = "set_fan_color" /\ call.fan < FAN_COUNT
           /\ (call.brightness < 0 \/ call.brightness > 100))
          => /\ sent = <<>>
             /\ pc \in {"set_fan_color", "exit"}
             /\ Exited => result = Err("InvalidBrightness", <<call.brightness>>)
    /\ (InRun /\ BrightnessBad # {})
          => LET z0 == FirstOf(BrightnessBad)
             IN  /\ \A i \in Idx :
                       /\ ~IsManualMode(sent[i]) /\ ~IsSpeedWrite(sent[i])
                       /\ \A z \in z0..(FAN_COUNT - 1) : ~IsColorFrameFor(sent[i], z)
                 /\ pc \notin {"fixed", "set_fan_speed", "speed_write", "collect", "loop", "sleep"}
                 /\ Exited => result.tag \in {"HidApi", "InvalidBrightness"}
                 /\ (Exited /\ result.tag = "InvalidBrightness")
                       => /\ result.val = <<Effective(z0).brightness>>
                          /\ call.fan = z0
                          /\ Len(sent) = 5 + 4 * z0
                          /\ \A z \in 0..(z0 - 1) : Cardinality(ColorFramesOf(z)) = 1

C10_FanWitness ==
    /\ StandaloneCall /\ Exited
    /\ call.fn = "set_fan_color" /\ call.fan = 4 /\ call.brightness = 42
    /\ result = Err("InvalidFan", <<4>>)
    /\ sent = <<>>

C10_BrightnessWitness ==
    /\ StandaloneCall /\ Exited
    /\ call.fn = "set_fan_color" /\ call.fan = 3 /\ call.brightness = 101
    /\ result = Err("InvalidBrightness", <<101>>)
    /\ sent = <<>>

C10_Witness ==
    /\ InRun /\ Exited
    /\ BrightnessBad = {1}
    /\ result = Err("InvalidBrightness", <<150>>)
    /\ Len(sent) = 5 + 4
    /\ IsColorFrameFor(sent[6], 0)

(* ---------------------------------------------------------------------- *)
(* The temperature mapper                                                  *)
(* ---------------------------------------------------------------------- *)
Applied(fn) == pc = "apply" /\ probe.fn = fn /\ IsSome(probe.out)

(* rpm = lo + round((temp - 60) / 35 * (hi - lo)), halves rounded up *)
IsRoundedInterpolation(rpm, temp, lo, hi) ==
    LET k == rpm - lo
    IN  /\ (2 * k - 1) * 35 <= 2 * (temp - 60) * (hi - lo)
        /\ 2 * (temp - 60) * (hi - lo) < (2 * k + 1) * 35

(* C11: for every calibration with max_rpm > min_rpm, map_temp_to_rpm      *)
(* returns min_rpm for temp <= 60, max_rpm for temp >= 95, the rounded     *)
(* linear interpolation in between, and is not below its value at the      *)
(* temperature one degree lower.                                           *)
C11_MapTempToRpm ==
    Applied("map_temp_to_rpm") =>
        LET temp == probe.in[1]
            lo   == probe.in[2]
            hi   == probe.in[3]
            rpm  == Unwrap(probe.out)
        IN  hi > lo =>
                /\ temp <= 60 => rpm = lo
                /\ temp >= 95 => rpm = hi
                /\ (60 < temp /\ temp < 95) => IsRoundedInterpolation(rpm, temp, lo, hi)
                /\ map_temp_to_rpm(temp - 1, lo, hi) <= rpm

C11_Witness ==
    /\ Applied("map_temp_to_rpm")
    /\ probe.in = <<78, 800, 1900>>
    /\ Unwrap(probe.out) = 1366

(* ---------------------------------------------------------------------- *)
(* The resolution engine                                                   *)
(* ---------------------------------------------------------------------- *)
(* the zone section says enabled = false *)
Disabled(zc) == zc # <<>> /\ zc[1].enabled = <<FALSE>>

(* the field of a section, <<>> when the section or the field is absent *)
FieldOf(section, field) == IF section = <<>> THEN <<>> ELSE section[1][field]

(* the zone section's value, else the global section's, else the CLI's *)
FirstPresent(zc, gc, cli, field) ==
    IF FieldOf(zc, field) # <<>> THEN FieldOf(zc, field)[1]
    ELSE IF FieldOf(gc, field) # <<>> THEN FieldOf(gc, field)[1]
    ELSE cli

(* C12: a zone whose section has enabled = false resolves to color         *)
(* (0,0,0), brightness 0, mode Fixed and the min_rpm of the bound model,   *)
(* whatever else the zone section, the global section and the command      *)
(* line say; a zone without enabled field, or without section, resolves    *)
(* as the same zone with enabled = true does.                              *)
C12_DisabledZone ==
    Applied("get_effective_settings") =>
        LET zc  == probe.in[1]
            gc  == probe.in[2]
            cli == probe.in[3]
            mc  == get_model_config(probe.in[4])
            out == Unwrap(probe.out)
        IN  /\ Disabled(zc) =>
                  out = [r |-> 0, g |-> 0, b |-> 0, brightness |-> 0,
                         speed |-> mc.min_rpm, mode |-> "Fixed"]
            /\ zc = <<>> =>
                  out = get_effective_settings(<<[NoZone EXCEPT !.enabled = <<TRUE>>]>>,
                                               gc, cli, mc)
            /\ (zc # <<>> /\ zc[1].enabled = <<>>) =>
                  out = get_effective_settings(<<[zc[1] EXCEPT !.enabled = <<TRUE>>]>>,
                                               gc, cli, mc)

C12_Witness ==
    /\ Applied("get_effective_settings")
    /\ Disabled(probe.in[1])
    /\ probe.in[1][1].color = <<Hex_A1B2C3>>
    /\ probe.in[1][1].brightness = <<150>>
    /\ probe.in[1][1].speed = <<5000>>
    /\ probe.in[1][1].mode = <<"QuietCpu">>
    /\ FieldOf(probe.in[2], "mode") = <<"QuietGpu">>
    /\ probe.in[4] = 41218
    /\ Unwrap(probe.out) = [r |-> 0, g |-> 0, b |-> 0, brightness |-> 0,
                            speed |-> 200, mode |-> "Fixed"]

(* C13: for a zone that is not disabled, brightness, speed and mode are    *)
(* each the zone section's value when it has one, else the global          *)
(* section's when it has one, else the command line's, whatever the value  *)
(* and whatever the other fields and the color of any layer are.           *)
C13_FieldLayers ==
    Applied("get_effective_settings") =>
        LET zc  == probe.in[1]
            gc  == probe.in[2]
            cli == probe.in[3]
            out == Unwrap(probe.out)
        IN  ~Disabled(zc) =>
                /\ out.brightness = FirstPresent(zc, gc, cli.brightness, "brightness")
                /\ out.speed = FirstPresent(zc, gc, cli.speed, "speed")
                /\ out.mode = FirstPresent(zc, gc, cli.mode, "mode")

C13_Witness ==
    /\ Applied("get_effective_settings")
    /\ FieldOf(probe.in[1], "brightness") = <<0>>
    /\ FieldOf(probe.in[1], "speed") = <<>>
    /\ FieldOf(probe.in[1], "mode") = <<>>
    /\ FieldOf(probe.in[1], "enabled") = <<>>
    /\ FieldOf(probe.in[2], "brightness") = <<42>>
    /\ FieldOf(probe.in[2], "speed") = <<1900>>
    /\ FieldOf(probe.in[2], "mode") = <<>>
    /\ Unwrap(probe.out).brightness = 0
    /\ Unwrap(probe.out).speed = 1900
    /\ Unwrap(probe.out).mode = "Fixed"

(* the bytes of the hex strings of the inputs; <<>> for a malformed one *)
KnownHex(str) ==
    CASE str = Hex_A1B2C3 -> << <<161, 178, 195>> >>
      [] str = Hex_0000ff -> << <<0, 0, 255>> >>
      [] OTHER            -> <<>>

(* the color sources of one section: its hex string when that is a hex     *)
(* color, its red, green, blue when all three are set                      *)
HexSource(section) ==
    IF FieldOf(section, "color") = <<>> THEN <<>> ELSE KnownHex(FieldOf(section, "color")[1])

TripleSource(section) ==
    IF /\ FieldOf(section, "red") # <<>>
       /\ FieldOf(section, "green") # <<>>
       /\ FieldOf(section, "blue") # <<>>
    THEN << << FieldOf(section, "red")[1], FieldOf(section, "green")[1],
               FieldOf(section, "blue")[1] >> >>
    ELSE <<>>

(* C14: for a zone that is not disabled the color is one whole triple,     *)
(* from the first source there is among the zone's hex string, the zone's  *)
(* red/green/blue, the global hex string, the global red/green/blue, and   *)
(* else the command line's; a section with only some of red, green, blue   *)
(* gives nothing.                                                          *)
C14_ColorSources ==
    Applied("get_effective_settings") =>
        LET zc  == probe.in[1]
            gc  == probe.in[2]
            cli == probe.in[3]
            out == Unwrap(probe.out)
            rgb == <<out.r, out.g, out.b>>
        IN  ~Disabled(zc) =>
                IF HexSource(zc) # <<>> THEN rgb = HexSource(zc)[1]
                ELSE IF TripleSource(zc) # <<>> THEN rgb = TripleSource(zc)[1]
                ELSE IF HexSource(gc) # <<>> THEN rgb = HexSource(gc)[1]
                ELSE IF TripleSource(gc) # <<>> THEN rgb = TripleSource(gc)[1]
                ELSE rgb = <<cli.red, cli.green, cli.blue>>

C14_Witness ==
    /\ Applied("get_effective_settings")
    /\ ~Disabled(probe.in[1])
    /\ FieldOf(probe.in[1], "color") = <<>>
    /\ FieldOf(probe.in[1], "red") = <<9>>
    /\ FieldOf(probe.in[1], "green") = <<>>
    /\ FieldOf(probe.in[2], "color") = <<>>
    /\ TripleSource(probe.in[2]) = << <<10, 20, 30>> >>
    /\ Unwrap(probe.out).r = 10
    /\ Unwrap(probe.out).g = 20
    /\ Unwrap(probe.out).b = 30

(* the hex string that governs zone z (the zone's, else the global one) is *)
(* there and is not a hex color, and the zone is not disabled              *)
MalformedHexFor(z) ==
    LET zc  == get_zone_config(config, z)
        gc  == get_global_config(config)
        hex == IF FieldOf(zc, "color") # <<>> THEN FieldOf(zc, "color")
               ELSE FieldOf(gc, "color")
    IN  ~Disabled(zc) /\ hex # <<>> /\ KnownHex(hex[1]) = <<>>

(* C15 as stated: when the hex string configured for an enabled zone (or,  *)
(* the zone having none, for the global section) is malformed, no color    *)
(* frame is sent for that zone and the run ends with InvalidHexColor (or   *)
(* an error met before it), never with success.                            *)
C15_AsStated ==
    InRun =>
        \A z \in Zones :
            MalformedHexFor(z) =>
                /\ ColorFramesOf(z) = {}
                /\ Exited => result.tag # "Ok"

(* ---------------------------------------------------------------------- *)
(* The hex parser                                                          *)
(* ---------------------------------------------------------------------- *)
(* the string without one leading '#' *)
StripOneHash(str) == IF Len(str) > 0 /\ str[1] = "#" THEN Tail(str) ELSE str

SixHexDigits(str) == Len(str) = 6 /\ \A i \in 1..6 : IsHexDigit(str[i])

(* C16 as stated: parse_hex_color succeeds exactly when the input without  *)
(* one leading '#' is 6 hexadecimal digits, then returning the bytes of    *)
(* the digit pairs; every other input, among them one with a sign          *)
(* character or with more than one leading '#', fails with                 *)
(* InvalidHexColor.                                                        *)
C16_AsStated ==
    Applied("parse_hex_color") =>
        LET hex == StripOneHash(probe.in[1])
            out == Unwrap(probe.out)
        IN  IF SixHexDigits(hex)
            THEN out = Ok(<< 16 * HexVal(hex[1]) + HexVal(hex[2]),
                             16 * HexVal(hex[3]) + HexVal(hex[4]),
                             16 * HexVal(hex[5]) + HexVal(hex[6]) >>)
            ELSE out.tag = "InvalidHexColor"

(* ---------------------------------------------------------------------- *)
(* The GPU sensor                                                          *)
(* ---------------------------------------------------------------------- *)
(* C17 as stated: get_gpu_temp never returns an error, whichever step of   *)
(* the primary vendor query fails, so no run ends with the error of a      *)
(* failed GPU read: in the loop a run ends through a transport error only. *)
C17_AsStated ==
    InRun => (Exited => result.tag # "NvmlError")

(* ---------------------------------------------------------------------- *)
(* Device identification                                                   *)
(* ---------------------------------------------------------------------- *)
(* a run of main past FanController::open *)
PastOpen == ~StandaloneCall /\ pc \notin {"open", "encode", "apply"}

(* the speed write of the current set_fan_speed call is the last report *)
SpeedJustWritten ==
    /\ call.fn = "set_fan_speed"
    /\ pc \notin {"set_fan_speed", "speed_write"}
    /\ sent # <<>>
    /\ IsSpeedWriteFor(sent[Len(sent)], call.fan)

(* C18: open tries the supported product ids in list order and binds the   *)
(* first that opens, trying none after it; the bound controller carries    *)
(* the calibration of that id, and the manual-mode and speed writes are    *)
(* built from it.  When no supported id opens the run ends with            *)
(* DeviceNotFound (or with the transport error of HidApi::new) and nothing *)
(* was sent.                                                               *)
C18_OpenBindsFirst ==
    PastOpen =>
        LET tried == AttemptsFrom(openable, 1)
        IN  /\ IsPrefix(tried, SUPPORTED_PRODUCT_IDS)
            /\ \A k \in 1..(Len(tried) - 1) : tried[k] \notin openable
            /\ controller = None =>
                  /\ Exited
                  /\ sent = <<>>
                  /\ result.tag \in {"DeviceNotFound", "HidApi"}
                  /\ result.tag = "DeviceNotFound" =>
                        /\ tried = SUPPORTED_PRODUCT_IDS
                        /\ \A k \in 1..Len(tried) : tried[k] \notin openable
            /\ (\A k \in 1..Len(SUPPORTED_PRODUCT_IDS) :
                    SUPPORTED_PRODUCT_IDS[k] \notin openable) => controller = None
            /\ IsSome(controller) =>
                  LET pid == Unwrap(controller).product_id
                      mc  == get_model_config(pid)
                  IN  /\ pid = tried[Len(tried)]
                      /\ pid \in openable
                      /\ model_config = mc
                      /\ \A i \in Idx :
                            IsManualMode(sent[i]) => sent[i].data[3] = mc.mode_byte
                      /\ SpeedJustWritten =>
                            sent[Len(sent)].data[4]
                                = SpeedByte(call.speed, mc.min_rpm, mc.max_rpm)

(* two ids open, 0xa102 before 0xa105 in the list: 0xa102 is bound and a   *)
(* speed was written with its calibration                                  *)
C18_Witness ==
    /\ PastOpen
    /\ openable = {41221, 41218}
    /\ IsSome(controller)
    /\ Unwrap(controller).product_id = 41218
    /\ SpeedJustWritten
    /\ call.from = "loop"

(* no supported id opens *)
C18_NotFoundWitness ==
    /\ PastOpen
    /\ openable = {}
    /\ Exited
    /\ result.tag = "DeviceNotFound"
    /\ sent = <<>>

(* ---------------------------------------------------------------------- *)
(* Manual mode before every speed write                                    *)
(* ---------------------------------------------------------------------- *)
(* 0x10 << zone for the zones 0..3 *)
ChannelMask == <<16, 32, 64, 128>>

(* C19: every speed write, of the one-shot step, of the loop and of a      *)
(* direct call, is [0xE0, 32 + zone, 0x00, speed_byte] for a zone 0..3 and *)
(* comes right after the manual-mode write of the same zone,               *)
(* [0xE0, 0x10, mode_byte of the bound model, 0x10 << zone], whose mask is *)
(* 0x10, 0x20, 0x40 or 0x80.                                               *)
C19_ManualModeBeforeSpeed ==
    (pc \notin {"encode", "apply"} /\ IsSome(controller)) =>
        /\ \A i \in Idx :
              IsSpeedWrite(sent[i]) =>
                  LET zone == sent[i].data[2] - 32
                  IN  /\ zone \in Zones
                      /\ sent[i].data[3] = 0
                      /\ sent[i].data[4] \in 0..U8_MAX
                      /\ i > 1
                      /\ sent[i - 1] = Write(<< REPORT_ID, SET_SPEED_CMD,
                                                model_config.mode_byte,
                                                ChannelMask[zone + 1] >>)
        /\ pc = "speed_write" =>
              /\ sent # <<>>
              /\ sent[Len(sent)] = Write(<< REPORT_ID, SET_SPEED_CMD,
                                            model_config.mode_byte,
                                            ChannelMask[call.fan + 1] >>)

(* a speed write of the loop for zone 3, after the manual-mode write with  *)
(* mask 0x80                                                               *)
C19_Witness ==
    /\ InRun
    /\ call.from = "loop"
    /\ call.fan = 3
    /\ SpeedJustWritten
    /\ sent[Len(sent) - 1].data = << REPORT_ID, SET_SPEED_CMD, model_config.mode_byte, 128 >>

(* the same in the one-shot step, for zone 1 *)
C19_OneShotWitness ==
    /\ InRun
    /\ call.from = "speeds"
    /\ call.fan = 1
    /\ SpeedJustWritten
    /\ sent[Len(sent) - 1].data = << REPORT_ID, SET_SPEED_CMD, model_config.mode_byte, 32 >>

(* ---------------------------------------------------------------------- *)
(* The speeds of the loop                                                  *)
(* ---------------------------------------------------------------------- *)
(* C20: every set_fan_speed call of the loop carries an rpm within         *)
(* [min_rpm, max_rpm] of the bound model and passes the validations of     *)
(* set_fan_speed, whatever the sensor read (fallback, below 60, above 95); *)
(* a run that entered the loop never ends with InvalidSpeed, only with a   *)
(* transport or sensor error.                                              *)
C20_LoopSpeedInRange ==
    InRun =>
        /\ call.from = "loop" =>
              /\ model_config.min_rpm <= call.speed
              /\ call.speed <= model_config.max_rpm
              /\ IsOk(SpeedCheck(call.fan, call.speed, model_config))
              /\ IsSome(last_read) =>
                    LET temp == Unwrap(last_read).temp
                    IN  /\ temp <= TEMP_LOW  => call.speed = model_config.min_rpm
                        /\ temp >= TEMP_HIGH => call.speed = model_config.max_rpm
        /\ (Exited /\ dynamic_zones # <<>>) =>
              /\ result.tag # "InvalidSpeed"
              /\ result.tag \in {"HidApi", "NvmlError"}

(* the fallback temperature: the loop writes the speed for min_rpm *)
C20_Witness ==
    /\ InRun
    /\ call.from = "loop"
    /\ IsSome(last_read)
    /\ Unwrap(last_read).temp = TEMP_FALLBACK
    /\ call.speed = model_config.min_rpm
    /\ SpeedJustWritten

(* a reading above 95: max_rpm *)
C20_HotWitness ==
    /\ InRun
    /\ call.from = "loop"
    /\ IsSome(last_read)
    /\ Unwrap(last_read).temp > TEMP_HIGH
    /\ call.speed = model_config.max_rpm
    /\ SpeedJustWritten

(* a reading between the thresholds: a speed strictly inside the range *)
C20_MidWitness ==
    /\ InRun
    /\ call.from = "loop"
    /\ IsSome(last_read)
    /\ Unwrap(last_read).temp > TEMP_LOW
    /\ Unwrap(last_read).temp < TEMP_HIGH
    /\ call.speed > model_config.min_rpm
    /\ call.speed < model_config.max_rpm
    /\ SpeedJustWritten

(* ---------------------------------------------------------------------- *)
(* The Fixed zones and the reactive zones                                  *)
(* ---------------------------------------------------------------------- *)
(* a color frame for zone z whose 351 body bytes are zero *)
BlackFrame(z) ==
    Write(<< REPORT_ID, SET_COLOR_CMD_BASE + z >> \o [j \in 1..(COLOR_BUFFER_SIZE - 2) |-> 0])

Collected(z) == \E k \in 1..Len(dynamic_zones) : dynamic_zones[k][1] = z

(* C21: every zone resolves to Fixed or to a reactive mode, and the zones  *)
(* collected for the loop are exactly the reactive ones, with the settings *)
(* they resolve to.  A zone with enabled = false is Fixed whatever modes   *)
(* its section, the global section and the command line ask for: its color *)
(* frames have an all-zero body, it gets at most one speed write, with     *)
(* speed byte 1, exactly one once the Fixed speeds were applied, and it is *)
(* never polled.  A reactive zone has no speed write from before the loop, *)
(* and its configured speed is never validated: a run ends with            *)
(* InvalidSpeed only when a Fixed zone's speed is out of range.            *)
C21_FixedReactivePartition ==
    InRun =>
        /\ \A z \in Zones :
              LET es     == Effective(z)
                  speeds == SpeedIdx(z)
              IN  /\ es.mode \in {"Fixed", "QuietCpu", "QuietGpu"}
                  /\ dynamic_zones # <<>> => (Collected(z) <=> es.mode # "Fixed")
                  /\ \A k \in 1..Len(dynamic_zones) :
                        dynamic_zones[k][1] = z => dynamic_zones[k][2] = es
                  /\ Disabled(get_zone_config(config, z)) =>
                        /\ es.mode = "Fixed"
                        /\ \A i \in ColorFramesOf(z) : sent[i] = BlackFrame(z)
                        /\ Cardinality(speeds) <= 1
                        /\ \A i \in speeds : sent[i].data = << REPORT_ID, 32 + z, 0, 1 >>
                        /\ Step2Done => Cardinality(speeds) = 1
                        /\ \A k \in 1..Len(polled) : polled[k] # z
                        /\ call.from = "loop" => call.fan # z
                        /\ IsSome(last_read) => Unwrap(last_read).zone # z
                  /\ es.mode # "Fixed" =>
                        \A i \in speeds : dynamic_zones # <<>> /\ i > loop_mark
        /\ \A k \in 1..(Len(dynamic_zones) - 1) :
              dynamic_zones[k][1] < dynamic_zones[k + 1][1]
        /\ (Exited /\ result.tag = "InvalidSpeed") => FixedBad # {}
        /\ (Exited /\ result.tag = "Ok") => AllFixed

(* zone 2 is disabled while its section asks for quiet-cpu, the global     *)
(* section for quiet-gpu and the command line for quiet-cpu with a speed   *)
(* of 5000: after one pass of the loop the zones 0, 1 and 3 were polled,   *)
(* zone 2 has its one speed write from before the loop                     *)
C21_Witness ==
    /\ InRun
    /\ args = QuietArgs
    /\ IsSome(config)
    /\ Disabled(get_zone_config(config, 2))
    /\ IsSome(get_global_config(config))
    /\ pc = "sleep"
    /\ polled = <<0, 1, 3>>
    /\ Cardinality(SpeedIdx(2)) = 1
    /\ \A i \in SpeedIdx(2) : i <= loop_mark
    /\ \E i \in ColorFramesOf(2) : sent[i] = BlackFrame(2)

(* a reactive zone whose resolved speed is outside the model's range got   *)
(* its speed write inside the loop                                         *)
C21_ReactiveWitness ==
    /\ InRun
    /\ call.from = "loop"
    /\ SpeedJustWritten
    /\ SpeedOutOfRange(Effective(call.fan).speed, model_config)
    /\ \A i \in SpeedIdx(call.fan) : i > loop_mark

====
